---- MODULE Spec2Model ----
(***************************************************************************)
(* Concurrent task orchestration of App.js: the browser context pool       *)
(* (BrowserContextPool), the captcha turn arbiter (waitForCaptchaTurn /    *)
(* processCaptchaQueue / releaseCaptchaLock), the websocket relay of       *)
(* answers and skips, and the stages of processAccount.  Every action is   *)
(* one run-to-completion segment of the JavaScript event loop: it starts   *)
(* where a task resumes after an await and ends at the next await.         *)
(***************************************************************************)
EXTENDS Integers, Sequences, FiniteSets, TLC

\* ---------------------------------------------------------------- bounds
\* Number of processAccount executions that may be in flight together.
NumTasks == 3
\* Attempts a run dispatches; threadId is the ordinal of the attempt in its
\* run, so tasks of overlapping runs carry the same threadIds.
TasksPerRun == 2
\* processAccount executions in the pool-only specification.
NumPoolTasks == 7
\* Calls of releaseCaptchaLock made by callers that are not the holder.
MaxStrayReleases == 1
\* Largest accountCount of a request.
MaxAccountCount == 3
\* Largest maxThreads of a request.
MaxThreadsInput == 7
\* Longest batch given to calculateOptimalBatchSize on its own.
MaxBatchLength == 6
\* tasks of the specification with fairness
NumFairTasks == 2
\* Tasks followed under the automated solver.
NumAiTasks == 1
\* Tasks followed with their checkInbox call.
NumInboxTasks == 1

\* Captcha messages the client receives.
MaxCaptchaMessages == 4
\* Tasks followed through solveCaptchaManually in either mode.
NumSolveTasks == 1
\* Websocket messages counted whose threadId has no pending resolver.
MaxAbsentDeliveries == 2
\* generateEmailInternal calls whose provider answers arrive.
MaxAnsweredOps == 3
\* Attempts of a run that are followed as tasks.
NumRunTasks == 3
\* accountCount of a run whose tasks are followed; the client sends no
\* maxThreads, which then is MAX_THREADS.
RunAccountCounts == {1, 2}

\* ------------------------------------------------------ program constants
\* new BrowserContextPool(6)
maxSize == 6
\* const maxCaptchaRounds = 2
maxCaptchaRounds == 2
\* const maxClickAttempts = useAiSolver ? 3 : 2   (manual relay mode)
maxClickAttempts == 2
\* const maxClickAttempts = useAiSolver ? 3 : 2   (automated solver)
maxClickAttemptsAi == 3
\* MAX_THREADS
MAX_THREADS == 6
\* let currentThreads = Math.min(3, maxAllowedThreads)
StartThreads == 3
\* const maxTotalAttempts = accountCount * 8
AttemptsPerAccount == 8
\* Math.max(currentThreads - 1, 2)
MinThreads == 2

\* async function checkInbox(sidToken, threadId, provider, maxAttempts = 80)
maxAttempts == 80
\* const EMAIL_QUEUE_SIZE = 10
EMAIL_QUEUE_SIZE == 10

\* activeCaptchaThreadId === null, context === null
Null == 0

VARIABLES
    pc,                    \* position of each processAccount execution
    ctx,                   \* processAccount's local `context`
    outcome,               \* the value processAccount resolves to
    pool,                  \* contextPool.pool (array, used as a stack)
    inUse,                 \* contextPool.inUse (Set)
    closed,                \* contexts on which close() has been called
    sanitizeFailed,        \* contexts whose last clearPageSession failed
    cleanupPc,             \* position of a running contextPool.cleanup()
    captchaQueue,          \* captchaQueue (array of {threadId, resolve})
    activeCaptchaThreadId, \* activeCaptchaThreadId
    skipCaptchaFlags,      \* keys of the skipCaptchaFlags Map
    captchaResolvers,      \* captchaResolvers Map, entries in insertion order
    turnResolved,          \* tasks whose waitForCaptchaTurn promise resolved
    slot,                  \* settlement of a task's waitForCaptchaSolution
    round,                 \* solveCaptchaManually's `round`
    clickAttempts,         \* solveCaptchaManually's `clickAttempts`
    holders,               \* history: tasks granted and not yet released
    waiting,               \* history: tasks not yet granted, by arrival
    overtaken,             \* history: tasks a grant has passed over
    lastGrant,             \* history: the latest grant
    releaseCalls,          \* history: releaseCaptchaLock calls per task
    releases,              \* history: calls that found the task the holder
    strayReleases,         \* history: calls made by non-holders
    skipDelivered,         \* history: holders a skip_captcha was addressed to
    absentDeliveries,      \* history: messages for a threadId without resolver
    skipInLifetime,        \* history: tasks sent a skip_captcha while running
    aiLog,                 \* history: the solver calls and clicks of each task
    emailQueue,            \* emailQueue (array of promises)
    emailOps,              \* the generateEmailInternal calls, in start order
    emailTakes,            \* history: the getEmailFromQueue calls, in order
    useAiSolver,           \* useAiSolver
    solveLog,              \* history: each task's solveCaptchaManually call
    inbox,                 \* each task's checkInbox call (inboxPromise)
    inFinally,             \* overlapping runs whose handler is past its loop
    client,                \* AccountGeneratorApp: state, ref, pending work
    accountCount,          \* req.body.accountCount
    maxThreads,            \* req.body.maxThreads
    runPc,                 \* position of the POST /api/generate handler
    currentThreads,        \* currentThreads
    prevThreads,           \* history: currentThreads before the last batch
    successfulCount,       \* successfulCount
    totalAttempts,         \* totalAttempts
    inFlight,              \* promises of the batch that have not settled
    batchSize,             \* batchSize of the latest batch
    batchResults,          \* batchResults, as the number of each shape
    results,               \* results, as the number of entries of each shape
    progressEvents,        \* progress messages sent by this run
    lastProgress,          \* {successful, attempts} of the latest message
    summary                \* the summary of res.json

poolVars == <<pool, inUse, closed, sanitizeFailed, cleanupPc>>

arbiterVars == <<captchaQueue, activeCaptchaThreadId, skipCaptchaFlags,
                 turnResolved>>

relayVars == <<captchaResolvers, slot>>

loopVars == <<round, clickAttempts>>

historyVars == <<holders, waiting, overtaken, lastGrant, releaseCalls,
                 releases>>

schedVars == <<accountCount, maxThreads, runPc, currentThreads, prevThreads,
               successfulCount, totalAttempts, inFlight, batchSize,
               batchResults, results, progressEvents, lastProgress, summary>>

deliveryVars == <<skipDelivered, absentDeliveries, skipInLifetime>>

solveVars == <<useAiSolver, solveLog>>
auxVars == <<aiLog, emailQueue, emailOps, emailTakes, solveVars, inbox,
            inFinally, client>>

vars == <<pc, ctx, outcome, poolVars, arbiterVars, relayVars,
          loopVars, historyVars, strayReleases, schedVars, deliveryVars,
          auxVars>>

Tasks == DOMAIN pc

\* const threadId = totalAttempts: the ordinal of the attempt in its run.
\* Where the handler of a run is followed, the tasks are its attempts.
\* Elsewhere tasks 1..TasksPerRun are the attempts of one run, the next ones
\* those of a run that overlaps it, and so on.
ThreadIdOf(t) == IF runPc = "none" THEN ((t - 1) % TasksPerRun) + 1 ELSE t

ThreadIds == 1..TasksPerRun

\* ------------------------------------------------------------------ Init
\* A task that has not entered solveCaptchaManually: attempts counts the
\* increments of clickAttempts, allClicks says that each of them submitted
\* an answer, nominal says that no success heuristic has fired and no screenshot was
\* missing, exit names the return statement taken.
NoAiLog == [attempts |-> 0, allClicks |-> TRUE, nominal |-> TRUE,
            exit |-> "none"]

\* A task that has not entered solveCaptchaManually.  clicks: answers
\* clicked into the challenge; misses: solveWithGemini calls that returned
\* null; shot: the local `screenshot`
\* ("none" before the round's checks, "null", "round" the one taken by the
\* round's checks, "fresh" one taken after the latest attempt, "kept" an
\* older one kept because none could be taken); cause: the return taken.
NoSolveLog == [clicks |-> 0, misses |-> 0, shot |-> "none",
               cause |-> "none"]

\* inboxPromise before checkInbox is called.  state: "none", "polling",
\* "code" (resolved with a code) or "null"; probes: iterations of the loop
\* that have begun; starts: calls of checkInbox; resumed: processAccount has
\* resumed from `await inboxPromise`.
NoInbox == [state |-> "none", probes |-> 0, starts |-> 0, resumed |-> FALSE]

\* useState(null) of currentCaptcha and useRef(null): no captcha.
NoCaptcha == [threadId |-> 0, timestamp |-> 0]

\* AccountGeneratorApp after its first render and effects.  updates are the
\* setState calls not yet rendered, effects the passive effects of the last
\* commit not yet run, arrivals the captcha messages received, sent the
\* latest message of wsRef.current.send.
NoClient ==
    [currentCaptcha |-> NoCaptcha, captchaQueue |-> <<>>,
     currentCaptchaRef |-> NoCaptcha, updates |-> <<>>, effects |-> {},
     arrivals |-> 0, sent |-> [type |-> "none", threadId |-> 0]]

InitTasks(T) ==
    /\ pc = [t \in T |-> "idle"]
    /\ ctx = [t \in T |-> Null]
    /\ outcome = [t \in T |-> "pending"]
    /\ pool = <<>>
    /\ inUse = {}
    /\ closed = {}
    /\ sanitizeFailed = {}
    /\ cleanupPc = "idle"
    /\ captchaQueue = <<>>
    /\ activeCaptchaThreadId = Null
    /\ skipCaptchaFlags = {}
    /\ captchaResolvers = <<>>
    /\ turnResolved = {}
    /\ slot = [t \in T |-> "none"]
    /\ round = [t \in T |-> 0]
    /\ clickAttempts = [t \in T |-> 0]
    /\ holders = {}
    /\ waiting = <<>>
    /\ overtaken = {}
    /\ lastGrant = [to |-> Null, from |-> Null, behind |-> 0]
    /\ releaseCalls = [t \in T |-> 0]
    /\ releases = [t \in T |-> 0]
    /\ strayReleases = 0
    /\ skipDelivered = {}
    /\ absentDeliveries = 0
    /\ skipInLifetime = {}
    /\ aiLog = [t \in T |-> NoAiLog]
    /\ useAiSolver = FALSE
    /\ solveLog = [t \in T |-> NoSolveLog]
    /\ inbox = [t \in T |-> NoInbox]
    /\ inFinally = {}
    /\ client = NoClient
    /\ emailQueue = <<>>
    /\ emailOps = <<>>
    /\ emailTakes = <<>>

\* The values processAccount resolves to: {success: true, ...},
\* {success: false, skipped: true, ...} and {success: false, error, ...}.
ResultKinds == {"success", "skipped", "failed"}

NoResults == [k \in ResultKinds |-> 0]

\* The summary before res.json.
NoSummary == [targetSuccessful |-> 0, actualSuccessful |-> 0,
              totalAttempts |-> 0, skipped |-> 0, failed |-> 0]

\* No POST /api/generate handler is followed.
InitNoRun ==
    /\ accountCount = 0
    /\ maxThreads = 0
    /\ runPc = "none"
    /\ currentThreads = 0
    /\ prevThreads = 0
    /\ successfulCount = 0
    /\ totalAttempts = 0
    /\ inFlight = 0
    /\ batchSize = 0
    /\ batchResults = NoResults
    /\ results = NoResults
    /\ progressEvents = 0
    /\ lastProgress = [successful |-> 0, attempts |-> 0]
    /\ summary = NoSummary

InitFor(T) == InitTasks(T) /\ InitNoRun

Init == InitFor(1..NumTasks)

\* ---------------------------------------------------------- turn arbiter
\* Mutant: the grant is issued without testing activeCaptchaThreadId.
processCaptchaQueueNoCheck(active, queue) ==
    IF Len(queue) > 0
    THEN [active |-> Head(queue).threadId, queue |-> Tail(queue),
          grant |-> <<Head(queue).task>>]
    ELSE [active |-> active, queue |-> queue, grant |-> <<>>]

\* Mutant: the newest ticket is granted (pop() in place of shift()).
processCaptchaQueueLifo(active, queue) ==
    IF active = Null /\ Len(queue) > 0
    THEN [active |-> queue[Len(queue)].threadId,
          queue |-> SubSeq(queue, 1, Len(queue) - 1),
          grant |-> <<queue[Len(queue)].task>>]
    ELSE [active |-> active, queue |-> queue, grant |-> <<>>]

\* processCaptchaQueue(): the arbiter after the call, and the task whose
\* promise it resolved (grant).
processCaptchaQueue(active, queue) ==
    IF active = Null /\ Len(queue) > 0
    THEN [active |-> Head(queue).threadId, queue |-> Tail(queue),
          grant |-> <<Head(queue).task>>]
    ELSE [active |-> active, queue |-> queue, grant |-> <<>>]

\* Mutant: the ticket is pushed and processCaptchaQueue() is not called.
waitForCaptchaTurnNoProcess(t, active, queue) ==
    [active |-> active,
     queue |-> Append(queue, [threadId |-> ThreadIdOf(t), task |-> t]),
     grant |-> <<>>]

\* waitForCaptchaTurn(threadId): push the ticket, then processCaptchaQueue().
waitForCaptchaTurn(t, active, queue) ==
    processCaptchaQueue(active,
        Append(queue, [threadId |-> ThreadIdOf(t), task |-> t]))

\* Mutant: the lock is released whoever calls.
releaseCaptchaLockNoGuard(id, active, queue, flags) ==
    LET r == processCaptchaQueue(Null, queue)
    IN  [active |-> r.active, queue |-> r.queue, grant |-> r.grant,
         flags |-> flags \ {id}, acted |-> TRUE]

\* Mutant: the holder's release does not call processCaptchaQueue().
releaseCaptchaLockNoHandoff(id, active, queue, flags) ==
    IF active = id
    THEN [active |-> Null, queue |-> queue, grant |-> <<>>,
          flags |-> flags \ {id}, acted |-> TRUE]
    ELSE [active |-> active, queue |-> queue, grant |-> <<>>,
          flags |-> flags, acted |-> FALSE]

\* releaseCaptchaLock(threadId)
releaseCaptchaLock(id, active, queue, flags) ==
    IF active = id
    THEN LET r == processCaptchaQueue(Null, queue)
         IN  [active |-> r.active, queue |-> r.queue, grant |-> r.grant,
              flags |-> flags \ {id}, acted |-> TRUE]
    ELSE [active |-> active, queue |-> queue, grant |-> <<>>,
          flags |-> flags, acted |-> FALSE]

Range(s) == {s[i] : i \in 1..Len(s)}

\* The arbiter state after a call that returned record r; arrived lists, in
\* order of arrival, the tasks that were waiting for a grant during the call,
\* and released holds the task that gave up the turn in it.
SetArbiter(r, arrived, released) ==
    /\ activeCaptchaThreadId' = r.active
    /\ captchaQueue' = r.queue
    /\ turnResolved' = turnResolved \cup Range(r.grant)
    /\ holders' = (holders \ released) \cup Range(r.grant)
    /\ waiting' = SelectSeq(arrived, LAMBDA u : u \notin Range(r.grant))
    /\ overtaken' = overtaken \cup
           {arrived[i] : i \in {j \in 1..Len(arrived) :
               \E k \in (j + 1)..Len(arrived) : arrived[k] \in Range(r.grant)}}
    /\ lastGrant' =
           IF r.grant = <<>> THEN lastGrant
           ELSE [to |-> r.grant[1],
                 from |-> IF released = {} THEN Null
                          ELSE CHOOSE u \in released : TRUE,
                 behind |-> Cardinality({j \in 1..Len(arrived) :
                     \E k \in 1..(j - 1) : arrived[k] = r.grant[1]})]

\* processAccount's `await waitForCaptchaTurn(threadId)`, up to the suspension
EnqueueTurn(t) ==
    LET r == waitForCaptchaTurn(t, activeCaptchaThreadId, captchaQueue)
    IN  /\ SetArbiter(r, Append(waiting, t), {})
        /\ UNCHANGED <<skipCaptchaFlags, releaseCalls, releases>>

\* processAccount's `finally { releaseCaptchaLock(threadId) }`; flags is the
\* skipCaptchaFlags map as the challenge stage left it.
ReleaseTurn(t, flags) ==
    LET r == releaseCaptchaLock(ThreadIdOf(t), activeCaptchaThreadId,
                                captchaQueue, flags)
    IN  /\ SetArbiter(r, waiting, IF r.acted THEN {t} ELSE {})
        /\ skipCaptchaFlags' = r.flags
        /\ releaseCalls' = [releaseCalls EXCEPT ![t] = @ + 1]
        /\ releases' = [releases EXCEPT ![t] = @ + (IF r.acted THEN 1 ELSE 0)]

\* ------------------------------------------------- captchaResolvers (Map)
HasResolver(id) == \E i \in 1..Len(captchaResolvers) :
                       captchaResolvers[i].threadId = id

ResolverTask(id) ==
    (CHOOSE e \in Range(captchaResolvers) : e.threadId = id).task

\* Map.prototype.set: an existing key keeps its position.
MapSet(m, id, t) ==
    IF \E i \in 1..Len(m) : m[i].threadId = id
    THEN [i \in 1..Len(m) |->
             IF m[i].threadId = id THEN [threadId |-> id, task |-> t] ELSE m[i]]
    ELSE Append(m, [threadId |-> id, task |-> t])

\* Map.prototype.delete
MapDelete(m, id) == SelectSeq(m, LAMBDA e : e.threadId # id)

\* ----------------------------------------------------- BrowserContextPool
\* pool.pop(): the context returned, and the array left
PoolTop == pool[Len(pool)]

PoolRest == SubSeq(pool, 1, Len(pool) - 1)

\* Mutant: releaseContext leaves the context in inUse.
ReleaseStartKeepsInUse(t) ==
    /\ inUse' = inUse
    /\ closed' = IF Len(pool) < maxSize THEN closed ELSE closed \cup {ctx[t]}

\* releaseContext(context) up to its first await: the context leaves inUse
\* and is closed at once when the pool is full.
ReleaseStart(t) ==
    /\ inUse' = inUse \ {ctx[t]}
    /\ closed' = IF Len(pool) < maxSize THEN closed ELSE closed \cup {ctx[t]}

\* where processAccount's `finally` leaves the task: awaiting the sanitizing
\* of its context, or settled
AfterReleaseStart == IF Len(pool) < maxSize THEN "sanitize" ELSE "done"

\* ----------------------------------------------------------- processAccount
\* A run's dispatch loop calls processAccount(targetUrl, threadId, ...); the
\* call runs up to `await getEmailFromQueue`.  Tasks are numbered in the
\* order of dispatch.
Dispatched(t) ==
    /\ pc[t] = "idle"
    /\ \A u \in Tasks : u < t => pc[u] # "idle"
    /\ pc' = [pc EXCEPT ![t] = "email"]

\* The same step with the email abstracted to its arrival.
Start(t) ==
    /\ Dispatched(t)
    /\ UNCHANGED <<ctx, outcome, poolVars, arbiterVars, relayVars, loopVars,
                   historyVars, strayReleases,
                   schedVars, auxVars, deliveryVars>>

\* getEmailFromQueue resolved (null when both providers failed), then
\* contextPool.getContext(browser) up to its return or its await.
EmailResolved(t, emailOk) ==
    /\ pc[t] = "email"
    /\ IF ~emailOk
       THEN /\ pc' = [pc EXCEPT ![t] = "done"]
            /\ outcome' = [outcome EXCEPT ![t] = "failed"]
            /\ UNCHANGED <<pool, inUse, ctx>>
       ELSE IF Len(pool) > 0
       THEN /\ pool' = PoolRest
            /\ inUse' = inUse \cup {PoolTop}
            /\ ctx' = [ctx EXCEPT ![t] = PoolTop]
            /\ pc' = [pc EXCEPT ![t] = "steps"]
            /\ UNCHANGED outcome
       ELSE /\ pc' = [pc EXCEPT ![t] = "creating"]
            /\ UNCHANGED <<pool, inUse, ctx, outcome>>
    /\ UNCHANGED <<closed, sanitizeFailed, cleanupPc, arbiterVars,
                   relayVars, loopVars, historyVars, strayReleases,
                   schedVars, auxVars, deliveryVars>>

\* getContext after `await browser.createBrowserContext()`.  A task creates
\* at most one context, so the new context is named after its creator.
CreateContext(t, created) ==
    /\ pc[t] = "creating"
    /\ IF created
       THEN /\ inUse' = inUse \cup {t}
            /\ ctx' = [ctx EXCEPT ![t] = t]
            /\ pc' = [pc EXCEPT ![t] = "steps"]
            /\ UNCHANGED outcome
       ELSE /\ pc' = [pc EXCEPT ![t] = "done"]
            /\ outcome' = [outcome EXCEPT ![t] = "failed"]
            /\ UNCHANGED <<inUse, ctx>>
    /\ UNCHANGED <<pool, closed, sanitizeFailed, cleanupPc,
                   arbiterVars, relayVars, loopVars, historyVars,
                   strayReleases,
                   schedVars, auxVars, deliveryVars>>

\* Page setup and the registration form, then waitForCaptchaTurn; a failing
\* step throws to processAccount's catch, whose finally releases the context.
Steps(t, stepsOk) ==
    /\ pc[t] = "steps"
    /\ IF stepsOk
       THEN /\ EnqueueTurn(t)
            /\ pc' = [pc EXCEPT ![t] = "turnWait"]
            /\ UNCHANGED <<outcome, inUse, closed>>
       ELSE /\ pc' = [pc EXCEPT ![t] = AfterReleaseStart]
            /\ outcome' = [outcome EXCEPT ![t] = "failed"]
            /\ ReleaseStart(t)
            /\ UNCHANGED <<arbiterVars, historyVars>>
    /\ UNCHANGED <<ctx, pool, sanitizeFailed, cleanupPc, relayVars,
                   loopVars, strayReleases,
                   schedVars, auxVars, deliveryVars>>

\* Mutant: the return of a skipped task leaves the stage past the finally.
ExitChallengeNoFinally(t, result, flags) ==
    /\ IF result = "skipped"
       THEN /\ skipCaptchaFlags' = flags
            /\ UNCHANGED <<captchaQueue, activeCaptchaThreadId, turnResolved,
                           historyVars>>
       ELSE ReleaseTurn(t, flags)
    /\ IF result = "solved"
       THEN /\ pc' = [pc EXCEPT ![t] = "awaitCode"]
            /\ UNCHANGED <<outcome, inUse, closed>>
       ELSE /\ pc' = [pc EXCEPT ![t] = AfterReleaseStart]
            /\ outcome' = [outcome EXCEPT ![t] =
                              IF result = "skipped" THEN "skipped"
                              ELSE "failed"]
            /\ ReleaseStart(t)

\* Leaving the try block of the challenge stage: the finally releases the
\* turn; then processAccount goes on to the inbox (solved), or returns
\* (skipped) or throws (unsolved) into the finally that releases the context.
ExitChallenge(t, result, flags) ==
    /\ ReleaseTurn(t, flags)
    /\ IF result = "solved"
       THEN /\ pc' = [pc EXCEPT ![t] = "awaitCode"]
            /\ UNCHANGED <<outcome, inUse, closed>>
       ELSE /\ pc' = [pc EXCEPT ![t] = AfterReleaseStart]
            /\ outcome' = [outcome EXCEPT ![t] =
                              IF result = "skipped" THEN "skipped"
                              ELSE "failed"]
            /\ ReleaseStart(t)

\* Mutant: the task goes on without awaiting waitForCaptchaTurn.
TurnGrantedNoAwait(t, clicked) ==
    /\ pc[t] = "turnWait"
    /\ IF clicked
       THEN /\ pc' = [pc EXCEPT ![t] = "solve"]
            /\ round' = [round EXCEPT ![t] = 1]
            /\ UNCHANGED <<outcome, inUse, closed, arbiterVars, historyVars,
                           clickAttempts>>
       ELSE /\ ExitChallenge(t, "unsolved", skipCaptchaFlags)
            /\ UNCHANGED loopVars
    /\ UNCHANGED <<ctx, pool, sanitizeFailed, cleanupPc, relayVars,
                   strayReleases,
                   schedVars, auxVars, deliveryVars>>

\* The task resumes with the turn; the Get Code button is clicked, or the
\* click fails or a page call throws and the stage ends unsolved.
TurnGranted(t, clicked) ==
    /\ pc[t] = "turnWait"
    /\ t \in turnResolved
    /\ IF clicked
       THEN /\ pc' = [pc EXCEPT ![t] = "solve"]
            /\ round' = [round EXCEPT ![t] = 1]
            /\ UNCHANGED <<outcome, inUse, closed, arbiterVars, historyVars,
                           clickAttempts>>
       ELSE /\ ExitChallenge(t, "unsolved", skipCaptchaFlags)
            /\ UNCHANGED loopVars
    /\ UNCHANGED <<ctx, pool, sanitizeFailed, cleanupPc, relayVars,
                   strayReleases,
                   schedVars, auxVars, deliveryVars>>

\* Head of the click loop of solveCaptchaManually: the skip flag is consumed,
\* or the task registers a resolver and waits for the relayed answer.
SolveLoopHead(t) ==
    /\ pc[t] = "solve"
    /\ IF ThreadIdOf(t) \in skipCaptchaFlags
       THEN /\ ExitChallenge(t, "skipped", skipCaptchaFlags \ {ThreadIdOf(t)})
            /\ round' = [round EXCEPT ![t] = 0]
            /\ clickAttempts' = [clickAttempts EXCEPT ![t] = 0]
            /\ UNCHANGED relayVars
       ELSE /\ captchaResolvers' = MapSet(captchaResolvers, ThreadIdOf(t), t)
            /\ slot' = [slot EXCEPT ![t] = "pending"]
            /\ pc' = [pc EXCEPT ![t] = "solutionWait"]
            /\ UNCHANGED <<outcome, inUse, closed, arbiterVars, historyVars,
                           loopVars>>
    /\ UNCHANGED <<ctx, pool, sanitizeFailed, cleanupPc,
                   strayReleases,
                   schedVars, auxVars, deliveryVars>>

\* solveCaptchaManually returns without waiting for an answer: a success
\* heuristic fires before the click loop, or a page call throws (false).
SolveEnds(t, solved) ==
    /\ pc[t] = "solve"
    /\ ExitChallenge(t, IF solved THEN "solved" ELSE "unsolved",
                     skipCaptchaFlags)
    /\ round' = [round EXCEPT ![t] = 0]
    /\ clickAttempts' = [clickAttempts EXCEPT ![t] = 0]
    /\ UNCHANGED <<ctx, pool, sanitizeFailed, cleanupPc, relayVars,
                   strayReleases,
                   schedVars, auxVars, deliveryVars>>

\* Mutant: the timer resolves the wait and leaves the resolver in the map.
SolutionTimeoutKeepsResolver(t) ==
    /\ pc[t] = "solutionWait"
    /\ slot[t] = "pending"
    /\ slot' = [slot EXCEPT ![t] = "timeout"]
    /\ UNCHANGED <<pc, ctx, outcome, poolVars, arbiterVars, captchaResolvers,
                   loopVars, historyVars, strayReleases,
                   schedVars, auxVars, deliveryVars>>

\* The timer of waitForCaptchaSolution fires.
SolutionTimeout(t) ==
    /\ pc[t] = "solutionWait"
    /\ slot[t] = "pending"
    /\ captchaResolvers' = MapDelete(captchaResolvers, ThreadIdOf(t))
    /\ slot' = [slot EXCEPT ![t] = "timeout"]
    /\ UNCHANGED <<pc, ctx, outcome, poolVars, arbiterVars,
                   loopVars, historyVars, strayReleases,
                   schedVars, auxVars, deliveryVars>>

\* The task resumes after waitForCaptchaSolution; fired says whether a success
\* heuristic fires on the way to the next loop head or to the final check.
\* The locals round and clickAttempts end with the call.
SolutionResume(t, fired) ==
    /\ pc[t] = "solutionWait"
    /\ slot[t] \in {"timeout", "skipped", "click"}
    /\ slot' = [slot EXCEPT ![t] = "none"]
    /\ LET attempts == clickAttempts[t] + (IF slot[t] = "click" THEN 1 ELSE 0)
           again == slot[t] = "click" /\ attempts < maxClickAttempts
           result == IF slot[t] = "skipped" THEN "skipped"
                     ELSE IF fired THEN "solved"
                     ELSE IF again \/ round[t] < maxCaptchaRounds THEN "loop"
                     ELSE "unsolved"
       IN  IF result = "loop"
           THEN /\ pc' = [pc EXCEPT ![t] = "solve"]
                /\ clickAttempts' = [clickAttempts EXCEPT ![t] =
                                        IF again THEN attempts ELSE 0]
                /\ round' = [round EXCEPT ![t] = IF again THEN @ ELSE @ + 1]
                /\ UNCHANGED <<outcome, inUse, closed, arbiterVars,
                               historyVars>>
           ELSE /\ ExitChallenge(t, result, skipCaptchaFlags)
                /\ round' = [round EXCEPT ![t] = 0]
                /\ clickAttempts' = [clickAttempts EXCEPT ![t] = 0]
    /\ UNCHANGED <<ctx, pool, sanitizeFailed, cleanupPc,
                   captchaResolvers, strayReleases,
                   schedVars, auxVars, deliveryVars>>

\* `await inboxPromise`, the verification code and the rest of the form; the
\* return or the throw runs the finally that releases the context.
Finish(t, result) ==
    /\ pc[t] = "awaitCode"
    /\ result \in {"success", "failed"}
    /\ pc' = [pc EXCEPT ![t] = AfterReleaseStart]
    /\ outcome' = [outcome EXCEPT ![t] = result]
    /\ ReleaseStart(t)
    /\ UNCHANGED <<ctx, pool, sanitizeFailed, cleanupPc,
                   arbiterVars, relayVars, loopVars, historyVars,
                   strayReleases,
                   schedVars, auxVars, deliveryVars>>

\* ------------------------------ solveCaptchaManually, automated solver
\* Mutant: the click loop runs while clickAttempts <= maxClickAttempts.
AttemptsRemainInclusive(n) == n <= maxClickAttemptsAi

\* while (!roundSolved && clickAttempts < maxClickAttempts), roundSolved false
AttemptsRemain(n) == n < maxClickAttemptsAi

\* One pass of the click loop with useAiSolver set, from the test of the skip
\* flag to the next loop head or to a return.  shot: the round's screenshot
\* was taken; position: solveWithGemini returned a position; after: what
\* follows the attempt ("none", "clickError" caught by the inner try,
\* "definitive": a check that returns true, "roundSolved": captchaStatus
\* solved by a vanished or hidden iframe, "noNewShot": the retry screenshot
\* failed, "threw": a page call threw to the outer catch); check: the result
\* of the check after the click loop (successCheck, finalCheck or
\* completionCheck); final: finalSuccess after the last round.
AiPass(rnd, n, shot, position, after, check, final) ==
    LET made == IF n = 0 /\ ~shot THEN 0 ELSE 1
        m == n + made
        clicked == IF made = 1 /\ position THEN 1 ELSE 0
        eff == IF clicked = 1 \/ after = "threw" THEN after ELSE "none"
        base == [round |-> rnd, clickAttempts |-> m, made |-> made,
                 clicked |-> clicked, nominal |-> made = 1,
                 result |-> "loop", exit |-> "none"]
        nextRound == [base EXCEPT !.round = rnd + 1, !.clickAttempts = 0]
    IN  IF made = 1 /\ eff = "threw"
        THEN [base EXCEPT !.result = "unsolved", !.exit = "threw"]
        ELSE IF eff = "definitive"
                \/ (eff = "noNewShot" /\ AttemptsRemain(m))
        THEN [base EXCEPT !.result = "solved", !.exit = "solved",
                          !.nominal = FALSE]
        ELSE IF eff = "roundSolved"
        THEN IF check \/ (rnd >= maxCaptchaRounds /\ final)
             THEN [base EXCEPT !.result = "solved", !.exit = "solved",
                               !.nominal = FALSE]
             ELSE IF rnd < maxCaptchaRounds
             THEN [nextRound EXCEPT !.nominal = FALSE]
             ELSE [base EXCEPT !.result = "unsolved", !.exit = "finalFailed",
                               !.nominal = FALSE]
        ELSE IF made = 1 /\ AttemptsRemain(m)
        THEN base
        ELSE IF check
        THEN [base EXCEPT !.result = "solved", !.exit = "solved",
                          !.nominal = FALSE]
        ELSE IF rnd < maxCaptchaRounds
        THEN nextRound
        ELSE [base EXCEPT !.result = "unsolved", !.exit = "exhausted"]

AfterAttempt == {"none", "clickError", "definitive", "roundSolved",
                 "noNewShot", "threw"}

\* The inputs of a pass that AiPass tells apart.
AiInputs ==
    {i \in [shot : BOOLEAN, position : BOOLEAN, after : AfterAttempt,
            check : BOOLEAN, final : BOOLEAN] :
        /\ i.final => i.after = "roundSolved" /\ ~i.check
        /\ i.check => i.after \in {"none", "clickError", "roundSolved"}
        /\ ~i.position => i.after \in {"none", "threw"}
        /\ ~i.shot => ~i.position /\ i.after = "none"}

\* The click loop of solveCaptchaManually under the automated solver and the
\* return to processAccount, whose finally releases the turn.
AiAttempt(t, shot, position, after, check, final) ==
    /\ pc[t] = "solve"
    /\ useAiSolver
    /\ IF ThreadIdOf(t) \in skipCaptchaFlags
       THEN /\ ExitChallenge(t, "skipped", skipCaptchaFlags \ {ThreadIdOf(t)})
            /\ round' = [round EXCEPT ![t] = 0]
            /\ clickAttempts' = [clickAttempts EXCEPT ![t] = 0]
            /\ aiLog' = [aiLog EXCEPT ![t].exit = "skipped"]
       ELSE LET r == AiPass(round[t], clickAttempts[t], shot, position,
                            after, check, final)
                log == [attempts |-> aiLog[t].attempts + r.made,
                        allClicks |-> aiLog[t].allClicks
                                         /\ r.clicked = r.made,
                        nominal |-> aiLog[t].nominal /\ r.nominal,
                        exit |-> r.exit]
            IN  /\ aiLog' = [aiLog EXCEPT ![t] = log]
                /\ IF r.result = "loop"
                   THEN /\ round' = [round EXCEPT ![t] = r.round]
                        /\ clickAttempts' = [clickAttempts EXCEPT
                                                ![t] = r.clickAttempts]
                        /\ UNCHANGED <<pc, outcome, inUse, closed,
                                       arbiterVars, historyVars>>
                   ELSE /\ ExitChallenge(t, r.result, skipCaptchaFlags)
                        /\ round' = [round EXCEPT ![t] = 0]
                        /\ clickAttempts' = [clickAttempts EXCEPT ![t] = 0]
    /\ UNCHANGED <<ctx, pool, sanitizeFailed, cleanupPc, relayVars,
                   strayReleases, schedVars, deliveryVars, emailQueue,
                   emailOps, emailTakes, solveVars, inbox,
                   inFinally, client>>

\* -------------------------------- solveCaptchaManually, return by return
\* initializeGemini(geminiApiKey) of the request whose tasks are followed:
\* useAiSolver is set when a key is given, before any task is dispatched.
InitializeGemini(key) ==
    /\ \A t \in Tasks : pc[t] = "idle"
    /\ useAiSolver' = key
    /\ UNCHANGED <<pc, ctx, outcome, poolVars, arbiterVars, relayVars,
                   loopVars, historyVars, strayReleases, schedVars,
                   deliveryVars, aiLog, emailQueue, emailOps, emailTakes,
                   solveLog, inbox,
                   inFinally, client>>

\* Mutant: three attempts a round in both modes.
maxClickAttemptsOfSolver(ai) == maxClickAttemptsAi

\* const maxClickAttempts = useAiSolver ? 3 : 2
maxClickAttemptsOf(ai) == IF ai THEN maxClickAttemptsAi ELSE maxClickAttempts

\* What the checks at the head of a round find: "earlySuccess" (round > 1),
\* "noIframe", "hidden", "noFrame" (contentFrame() is null), "threw" (a page
\* call or waitForSelector throws), or the click loop is entered with the
\* screenshot ("shot") or without it ("noShot").
RoundStarts == {"earlySuccess", "noIframe", "hidden", "noFrame", "threw",
                "shot", "noShot"}

\* The round's checks up to `let screenshot = await takeCaptchaScreenshot`.
roundStart(start) ==
    IF start = "threw"
    THEN [result |-> "unsolved", cause |-> "threw", shot |-> "none"]
    ELSE IF start \in {"earlySuccess", "noIframe", "hidden"}
    THEN [result |-> "solved", cause |-> "heuristic", shot |-> "none"]
    ELSE IF start = "noFrame"
    THEN [result |-> "solved", cause |-> "noFrame", shot |-> "none"]
    ELSE [result |-> "loop", cause |-> "none",
          shot |-> IF start = "shot" THEN "round" ELSE "null"]

\* The code after the click loop: successCheck and `continue`, finalCheck and
\* `return false`, or completionCheck and, after the last round,
\* finalSuccess.  check is the result of the one page check that runs.
afterLoop(rnd, roundSolved, check, final) ==
    IF check = "threw" THEN [result |-> "unsolved", cause |-> "threw"]
    ELSE IF check = "yes" THEN [result |-> "solved", cause |-> "heuristic"]
    ELSE IF rnd < maxCaptchaRounds
    THEN [result |-> "nextRound", cause |-> "none"]
    ELSE IF roundSolved /\ final
    THEN [result |-> "solved", cause |-> "heuristic"]
    ELSE [result |-> "unsolved", cause |-> "failed"]

\* What follows an attempt.  After a click: "clickError" (caught by the
\* inner try), "quick" (quickSuccessCheck), "definitive" (success message
\* or countdown), "roundSolved" (iframe removed, hidden or of zero size),
\* "gone" (captcha not present any more before the retry screenshot),
\* "fresh" (new screenshot taken), "kept" (no frame, no screenshot is
\* taken), "noNewShot" (takeCaptchaScreenshot returned null).  After a
\* solver miss: "fresh", "threw" (page.$ throws), anything else keeps the
\* screenshot.
AfterAttempts == {"clickError", "quick", "definitive", "roundSolved",
                  "gone", "fresh", "kept", "noNewShot", "threw"}

PageChecks == {"yes", "no", "threw"}

\* The inputs of a pass that loopPass tells apart: the check after the click
\* loop matters when the loop ends ("clickError" stands for every attempt
\* that ends it by the count), finalSuccess after a solved last round.
PassInputs ==
    {i \in [after : AfterAttempts, check : PageChecks, final : BOOLEAN] :
        /\ i.check # "no" => i.after \in {"clickError", "roundSolved"}
        /\ i.final => i.after = "roundSolved" /\ i.check = "no"}

\* Mutant: a solver miss is retried on the screenshot at hand.
loopPassNoRetake(max, rnd, n, shot, answer, after, check, final) ==
    LET m == IF answer \in {"click", "miss"} THEN n + 1 ELSE n
        base == [round |-> rnd, clickAttempts |-> m, shot |-> shot,
                 clicked |-> IF answer = "click" THEN 1 ELSE 0,
                 missed |-> IF answer = "miss" THEN 1 ELSE 0,
                 result |-> "loop", cause |-> "none"]
        older == IF shot = "null" THEN "null" ELSE "kept"
        ended(roundSolved) ==
            LET a == afterLoop(rnd, roundSolved, check, final)
            IN  IF a.result = "nextRound"
                THEN [base EXCEPT !.round = rnd + 1, !.clickAttempts = 0,
                                  !.shot = "none"]
                ELSE [base EXCEPT !.result = a.result, !.cause = a.cause]
    IN  IF answer = "skipped"
        THEN [base EXCEPT !.result = "skipped", !.cause = "skipped"]
        ELSE IF answer \in {"timeout", "noShot"} THEN ended(FALSE)
        ELSE IF answer = "miss"
        THEN IF m < max THEN base ELSE ended(FALSE)
        ELSE IF after \in {"quick", "definitive"}
        THEN [base EXCEPT !.result = "solved", !.cause = "heuristic"]
        ELSE IF after = "roundSolved" THEN ended(TRUE)
        ELSE IF m < max
        THEN IF after = "gone"
             THEN [base EXCEPT !.result = "solved", !.cause = "heuristic"]
             ELSE IF after = "noNewShot"
             THEN [base EXCEPT !.result = "solved", !.cause = "noShot"]
             ELSE IF after = "fresh" THEN [base EXCEPT !.shot = "fresh"]
             ELSE IF after = "kept" THEN [base EXCEPT !.shot = older]
             ELSE base
        ELSE ended(FALSE)

\* One pass of `while (!roundSolved && clickAttempts < maxClickAttempts)`
\* after the test of the skip flag.  answer is what the pass got: "click"
\* (a relayed click, or a position of solveWithGemini), "miss"
\* (solveWithGemini returned null), "timeout" or "skipped"
\* (waitForCaptchaSolution), "noShot" (useAiSolver without a screenshot).
loopPass(max, rnd, n, shot, answer, after, check, final) ==
    LET m == IF answer \in {"click", "miss"} THEN n + 1 ELSE n
        base == [round |-> rnd, clickAttempts |-> m, shot |-> shot,
                 clicked |-> IF answer = "click" THEN 1 ELSE 0,
                 missed |-> IF answer = "miss" THEN 1 ELSE 0,
                 result |-> "loop", cause |-> "none"]
        older == IF shot = "null" THEN "null" ELSE "kept"
        ended(roundSolved) ==
            LET a == afterLoop(rnd, roundSolved, check, final)
            IN  IF a.result = "nextRound"
                THEN [base EXCEPT !.round = rnd + 1, !.clickAttempts = 0,
                                  !.shot = "none"]
                ELSE [base EXCEPT !.result = a.result, !.cause = a.cause]
    IN  IF answer = "skipped"
        THEN [base EXCEPT !.result = "skipped", !.cause = "skipped"]
        ELSE IF answer \in {"timeout", "noShot"} THEN ended(FALSE)
        ELSE IF answer = "miss"
        THEN IF m < max
             THEN IF after = "threw"
                  THEN [base EXCEPT !.result = "unsolved", !.cause = "threw"]
                  ELSE [base EXCEPT !.shot = IF after = "fresh" THEN "fresh"
                                             ELSE older]
             ELSE ended(FALSE)
        ELSE IF after \in {"quick", "definitive"}
        THEN [base EXCEPT !.result = "solved", !.cause = "heuristic"]
        ELSE IF after = "roundSolved" THEN ended(TRUE)
        ELSE IF m < max
        THEN IF after = "gone"
             THEN [base EXCEPT !.result = "solved", !.cause = "heuristic"]
             ELSE IF after = "noNewShot"
             THEN [base EXCEPT !.result = "solved", !.cause = "noShot"]
             ELSE IF after = "fresh" THEN [base EXCEPT !.shot = "fresh"]
             ELSE IF after = "kept" THEN [base EXCEPT !.shot = older]
             ELSE base
        ELSE ended(FALSE)

\* The task goes on as the pass r says: to the next loop head, to the next
\* round, or back to processAccount, whose finally releases the turn.
ApplyPass(t, r) ==
    /\ solveLog' = [solveLog EXCEPT ![t] =
          [clicks |-> @.clicks + r.clicked, misses |-> @.misses + r.missed,
           shot |-> r.shot, cause |-> r.cause]]
    /\ IF r.result = "loop"
       THEN /\ pc' = [pc EXCEPT ![t] = "solve"]
            /\ round' = [round EXCEPT ![t] = r.round]
            /\ clickAttempts' = [clickAttempts EXCEPT ![t] = r.clickAttempts]
            /\ UNCHANGED <<outcome, inUse, closed, arbiterVars, historyVars>>
       ELSE /\ ExitChallenge(t, r.result, skipCaptchaFlags)
            /\ round' = [round EXCEPT ![t] = 0]
            /\ clickAttempts' = [clickAttempts EXCEPT ![t] = 0]

\* solveCaptchaManually from the head of a round to the click loop.
RoundStart(t, start) ==
    /\ pc[t] = "solve"
    /\ solveLog[t].shot = "none"
    /\ start = "earlySuccess" => round[t] > 1
    /\ LET r == roundStart(start)
       IN  /\ solveLog' = [solveLog EXCEPT ![t].shot = r.shot,
                                           ![t].cause = r.cause]
           /\ IF r.result = "loop"
              THEN UNCHANGED <<pc, outcome, inUse, closed, arbiterVars,
                               historyVars, loopVars>>
              ELSE /\ ExitChallenge(t, r.result, skipCaptchaFlags)
                   /\ round' = [round EXCEPT ![t] = 0]
                   /\ clickAttempts' = [clickAttempts EXCEPT ![t] = 0]
    /\ UNCHANGED <<ctx, pool, sanitizeFailed, cleanupPc, relayVars,
                   strayReleases, schedVars, deliveryVars, aiLog,
                   emailQueue, emailOps, emailTakes, useAiSolver,
                   inbox,
                   inFinally, client>>

\* The head of the click loop when useAiSolver is not set: the skip flag is
\* consumed, or waitForCaptchaSolution registers the resolver.
ManualHead(t) ==
    /\ ~useAiSolver
    /\ solveLog[t].shot # "none"
    /\ SolveLoopHead(t)

\* The task resumes after waitForCaptchaSolution and, with a click, submits
\* it and runs the checks up to the next loop head or to a return.
ManualResume(t, after, check, final) ==
    /\ pc[t] = "solutionWait"
    /\ slot[t] \in {"timeout", "skipped", "click"}
    /\ slot' = [slot EXCEPT ![t] = "none"]
    /\ ApplyPass(t,
                 loopPass(maxClickAttemptsOf(useAiSolver), round[t],
                          clickAttempts[t], solveLog[t].shot, slot[t],
                          after, check, final))
    /\ UNCHANGED <<ctx, pool, sanitizeFailed, cleanupPc, captchaResolvers,
                   strayReleases, schedVars, deliveryVars, aiLog,
                   emailQueue, emailOps, emailTakes, useAiSolver,
                   inbox,
                   inFinally, client>>

\* One pass of the click loop when useAiSolver is set: the skip flag is
\* consumed, or solveWithGemini is asked (position says whether it returned
\* one) and its position is clicked, up to the next loop head or a return.
AiStep(t, position, after, check, final) ==
    /\ pc[t] = "solve"
    /\ useAiSolver
    /\ solveLog[t].shot # "none"
    /\ IF ThreadIdOf(t) \in skipCaptchaFlags
       THEN /\ ExitChallenge(t, "skipped", skipCaptchaFlags \ {ThreadIdOf(t)})
            /\ round' = [round EXCEPT ![t] = 0]
            /\ clickAttempts' = [clickAttempts EXCEPT ![t] = 0]
            /\ solveLog' = [solveLog EXCEPT ![t].cause = "skipped"]
       ELSE LET answer == IF solveLog[t].shot = "null" THEN "noShot"
                          ELSE IF position THEN "click" ELSE "miss"
            IN  ApplyPass(t,
                          loopPass(maxClickAttemptsOf(useAiSolver), round[t],
                                   clickAttempts[t], solveLog[t].shot,
                                   answer, after, check, final))
    /\ UNCHANGED <<ctx, pool, sanitizeFailed, cleanupPc, relayVars,
                   strayReleases, schedVars, deliveryVars, aiLog,
                   emailQueue, emailOps, emailTakes, useAiSolver,
                   inbox,
                   inFinally, client>>

\* clearPageSession(page): true when the session was cleared, false when a
\* CDP or page call threw; it never throws.
clearPageSession(cleared) == cleared

\* releaseContext's try block: the context is pushed back when context.pages()
\* resolved (every clearPageSession rejection or false result is dropped by
\* `.catch(() => {})`), and closed when context.pages() threw.
keepsContext(pagesOk, cleared) ==
    pagesOk /\ clearPageSession(cleared) \in BOOLEAN

\* releaseContext after `await context.pages()` and `await Promise.all(...)`
ReleaseFinish(t, pagesOk, cleared) ==
    /\ pc[t] = "sanitize"
    /\ pc' = [pc EXCEPT ![t] = "done"]
    /\ IF keepsContext(pagesOk, cleared)
       THEN /\ pool' = Append(pool, ctx[t])
            /\ sanitizeFailed' = IF cleared THEN sanitizeFailed \ {ctx[t]}
                                 ELSE sanitizeFailed \cup {ctx[t]}
            /\ UNCHANGED closed
       ELSE /\ closed' = closed \cup {ctx[t]}
            /\ UNCHANGED <<pool, sanitizeFailed>>
    /\ UNCHANGED <<ctx, outcome, inUse, cleanupPc, arbiterVars,
                   relayVars, loopVars, historyVars, strayReleases,
                   schedVars, auxVars, deliveryVars>>

\* Mutant: cleanup closes the free contexts only.
CleanupStartFreeOnly ==
    /\ cleanupPc = "idle"
    /\ cleanupPc' = "closing"
    /\ closed' = closed \cup Range(pool)
    /\ UNCHANGED <<pc, ctx, outcome, pool, inUse, sanitizeFailed,
                   arbiterVars, relayVars, loopVars, historyVars,
                   strayReleases,
                   schedVars, auxVars, deliveryVars>>

\* contextPool.cleanup(), up to `await Promise.all(...)`: close() is called
\* on every context of the snapshot.
CleanupStart ==
    /\ cleanupPc = "idle"
    /\ cleanupPc' = "closing"
    /\ closed' = closed \cup Range(pool) \cup inUse
    /\ UNCHANGED <<pc, ctx, outcome, pool, inUse, sanitizeFailed,
                   arbiterVars, relayVars, loopVars, historyVars,
                   strayReleases,
                   schedVars, auxVars, deliveryVars>>

\* contextPool.cleanup() after the await
CleanupFinish ==
    /\ cleanupPc = "closing"
    /\ cleanupPc' = "idle"
    /\ pool' = <<>>
    /\ inUse' = {}
    /\ UNCHANGED <<pc, ctx, outcome, closed, sanitizeFailed,
                   arbiterVars, relayVars, loopVars, historyVars,
                   strayReleases,
                   schedVars, auxVars, deliveryVars>>

\* ------------------------------------------------------ websocket messages
\* ws.on('message') with data.type === 'skip_captcha'
OnSkipCaptcha(id) ==
    /\ skipCaptchaFlags' = skipCaptchaFlags \cup {id}
    /\ IF HasResolver(id)
       THEN /\ slot' = [slot EXCEPT ![ResolverTask(id)] = "skipped"]
            /\ captchaResolvers' = MapDelete(captchaResolvers, id)
       ELSE UNCHANGED relayVars
    /\ UNCHANGED <<pc, ctx, outcome, poolVars, captchaQueue,
                   activeCaptchaThreadId, turnResolved, loopVars, historyVars,
                   strayReleases, schedVars, auxVars>>

WsSkip(id) == OnSkipCaptcha(id) /\ UNCHANGED deliveryVars

\* The same message, with the holder it is addressed to kept as history.
WsSkipTracked(id) ==
    /\ OnSkipCaptcha(id)
    /\ UNCHANGED <<absentDeliveries, skipInLifetime>>
    /\ skipDelivered' = skipDelivered \cup
          {t \in Tasks : /\ t \in turnResolved
                         /\ releaseCalls[t] = 0
                         /\ ThreadIdOf(t) = id}

\* ws.on('message') with data.type === 'click' | 'captcha_click'; id = Null
\* is a message without threadId, which goes to the first pending resolver.
WsClick(id) ==
    LET key == IF id = Null /\ Len(captchaResolvers) > 0
               THEN captchaResolvers[1].threadId ELSE id
    IN  /\ key # Null
        /\ HasResolver(key)
        /\ slot' = [slot EXCEPT ![ResolverTask(key)] = "click"]
        /\ captchaResolvers' = MapDelete(captchaResolvers, key)
        /\ UNCHANGED <<pc, ctx, outcome, poolVars, arbiterVars,
                       loopVars, historyVars, strayReleases,
                   schedVars, auxVars, deliveryVars>>

\* ---------------------------------------------------------- specifications
\* The turn arbiter and the challenge stage.  A task is followed from its
\* dispatch to the end of its challenge stage or to its earlier failure; the
\* arbiter's variables are read and written by these actions only.
Next ==
    \/ \E t \in Tasks : Start(t)
    \/ \E t \in Tasks, emailOk \in BOOLEAN : EmailResolved(t, emailOk)
    \/ \E t \in Tasks, created \in BOOLEAN : CreateContext(t, created)
    \/ \E t \in Tasks, stepsOk \in BOOLEAN : Steps(t, stepsOk)
    \/ \E t \in Tasks, clicked \in BOOLEAN : TurnGranted(t, clicked)
    \/ \E t \in Tasks : SolveLoopHead(t)
    \/ \E t \in Tasks, solved \in BOOLEAN : SolveEnds(t, solved)
    \/ \E t \in Tasks : SolutionTimeout(t)
    \/ \E t \in Tasks, fired \in BOOLEAN : SolutionResume(t, fired)
    \/ \E id \in ThreadIds : WsSkip(id)
    \/ \E id \in ThreadIds \cup {Null} : WsClick(id)

Spec == Init /\ [][Next]_vars

\* The context pool: tasks acquire a context, fail a workflow step or finish,
\* and release; cleanup() runs at any time (POST /api/cleanup, end of a run).
NextPool ==
    \/ \E t \in Tasks : Start(t)
    \/ \E t \in Tasks, emailOk \in BOOLEAN : EmailResolved(t, emailOk)
    \/ \E t \in Tasks, created \in BOOLEAN : CreateContext(t, created)
    \/ \E t \in Tasks : Steps(t, FALSE)
    \/ \E t \in Tasks, pagesOk \in BOOLEAN, cleared \in BOOLEAN :
           ReleaseFinish(t, pagesOk, cleared)
    \/ CleanupStart
    \/ CleanupFinish

SpecPool == Init /\ [][NextPool]_vars

\* Overlapping POST /api/generate requests on the one contextPool.  The
\* tasks of a run are those of its last batch: when they have all settled
\* the handler leaves its loop and its finally calls contextPool.cleanup().
RunOf(t) == ((t - 1) \div TasksPerRun) + 1

Runs == {RunOf(t) : t \in Tasks}

\* Promise.all(batchPromises) of the last batch has resolved.
RunFinished(r) == \A t \in Tasks : RunOf(t) = r => pc[t] = "done"

\* } finally { await contextPool.cleanup(); ... } of run r, up to the await
\* inside cleanup().
EndOfRunCleanup(r) ==
    /\ RunFinished(r)
    /\ r \notin inFinally
    /\ cleanupPc = "idle"
    /\ inFinally' = inFinally \cup {r}
    /\ cleanupPc' = "closing"
    /\ closed' = closed \cup Range(pool) \cup inUse
    /\ UNCHANGED <<pc, ctx, outcome, pool, inUse, sanitizeFailed,
                   arbiterVars, relayVars, loopVars, historyVars,
                   strayReleases, schedVars, deliveryVars,
                   aiLog, emailQueue, emailOps, emailTakes, solveVars, inbox, client>>

NextOverlap ==
    \/ \E t \in Tasks : Start(t)
    \/ \E t \in Tasks, emailOk \in BOOLEAN : EmailResolved(t, emailOk)
    \/ \E t \in Tasks, created \in BOOLEAN : CreateContext(t, created)
    \/ \E t \in Tasks : Steps(t, FALSE)
    \/ \E t \in Tasks, pagesOk \in BOOLEAN, cleared \in BOOLEAN :
           ReleaseFinish(t, pagesOk, cleared)
    \/ \E r \in Runs : EndOfRunCleanup(r)
    \/ CleanupFinish

SpecOverlap == Init /\ [][NextOverlap]_vars

\* The pool under more concurrent tasks than its capacity (overlapping runs):
\* every task creates or reuses a context, fails a workflow step and releases.
InitPoolWide == InitFor(1..NumPoolTasks)

NextPoolWide ==
    \/ \E t \in Tasks : Start(t)
    \/ \E t \in Tasks : EmailResolved(t, TRUE)
    \/ \E t \in Tasks : CreateContext(t, TRUE)
    \/ \E t \in Tasks : Steps(t, FALSE)
    \/ \E t \in Tasks : ReleaseFinish(t, TRUE, TRUE)

SpecPoolWide == InitPoolWide /\ [][NextPoolWide]_vars

\* The arbiter under callers of releaseCaptchaLock that do not hold the turn
\* (a stale, duplicate, queued or unknown threadId).
StrayRelease(id) ==
    /\ strayReleases < MaxStrayReleases
    /\ id # activeCaptchaThreadId
    /\ strayReleases' = strayReleases + 1
    /\ LET r == releaseCaptchaLock(id, activeCaptchaThreadId, captchaQueue,
                                   skipCaptchaFlags)
       IN  /\ SetArbiter(r, waiting, {})
           /\ skipCaptchaFlags' = r.flags
    /\ UNCHANGED <<schedVars, auxVars, deliveryVars, pc, ctx, outcome, poolVars,
                   relayVars, loopVars,
                   releaseCalls, releases>>

NextStray ==
    \/ \E t \in Tasks : Start(t)
    \/ \E t \in Tasks : EmailResolved(t, TRUE)
    \/ \E t \in Tasks : CreateContext(t, TRUE)
    \/ \E t \in Tasks : Steps(t, TRUE)
    \/ \E t \in Tasks, clicked \in BOOLEAN : TurnGranted(t, clicked)
    \/ \E t \in Tasks, solved \in BOOLEAN : SolveEnds(t, solved)
    \/ \E id \in ThreadIds : WsSkip(id)
    \/ \E id \in ThreadIds \cup {TasksPerRun + 1} : StrayRelease(id)

SpecStray == Init /\ [][NextStray]_vars

\* The pool under a caller that calls releaseContext a second time for the
\* context it has already released.
StrayReleaseContext(t) ==
    /\ strayReleases < MaxStrayReleases
    /\ pc[t] = "done"
    /\ ctx[t] # Null
    /\ strayReleases' = strayReleases + 1
    /\ pc' = [pc EXCEPT ![t] = AfterReleaseStart]
    /\ ReleaseStart(t)
    /\ UNCHANGED <<schedVars, auxVars, deliveryVars, ctx, outcome, pool,
                   sanitizeFailed, cleanupPc, arbiterVars,
                   relayVars, loopVars, historyVars>>

NextPoolStray ==
    \/ \E t \in Tasks : Start(t)
    \/ \E t \in Tasks : EmailResolved(t, TRUE)
    \/ \E t \in Tasks : CreateContext(t, TRUE)
    \/ \E t \in Tasks : Steps(t, FALSE)
    \/ \E t \in Tasks, pagesOk \in BOOLEAN : ReleaseFinish(t, pagesOk, TRUE)
    \/ \E t \in Tasks : StrayReleaseContext(t)

SpecPoolStray == Init /\ [][NextPoolStray]_vars

\* The challenge stage under skip_captcha messages whose addressee is kept.
NextSkip ==
    \/ \E t \in Tasks : Start(t)
    \/ \E t \in Tasks : EmailResolved(t, TRUE)
    \/ \E t \in Tasks : CreateContext(t, TRUE)
    \/ \E t \in Tasks : Steps(t, TRUE)
    \/ \E t \in Tasks, clicked \in BOOLEAN : TurnGranted(t, clicked)
    \/ \E t \in Tasks : SolveLoopHead(t)
    \/ \E t \in Tasks, solved \in BOOLEAN : SolveEnds(t, solved)
    \/ \E t \in Tasks : SolutionTimeout(t)
    \/ \E t \in Tasks, fired \in BOOLEAN : SolutionResume(t, fired)
    \/ \E id \in ThreadIds : WsSkipTracked(id)
    \/ \E id \in ThreadIds \cup {Null} : WsClick(id)

SpecSkip == Init /\ [][NextSkip]_vars

\* The arbiter under the event loop's fairness: a task whose promise has
\* resolved resumes, and the timer of a pending wait fires.
ChallengeStep(t) ==
    \/ \E clicked \in BOOLEAN : TurnGranted(t, clicked)
    \/ SolveLoopHead(t)
    \/ \E solved \in BOOLEAN : SolveEnds(t, solved)
    \/ SolutionTimeout(t)
    \/ \E fired \in BOOLEAN : SolutionResume(t, fired)

NextFair ==
    \/ \E t \in Tasks : Start(t)
    \/ \E t \in Tasks : EmailResolved(t, TRUE)
    \/ \E t \in Tasks : CreateContext(t, TRUE)
    \/ \E t \in Tasks : Steps(t, TRUE)
    \/ \E t \in Tasks : ChallengeStep(t)
    \/ \E id \in ThreadIds : WsSkip(id)

InitFair == InitFor(1..NumFairTasks)

SpecFair ==
    /\ InitFair
    /\ [][NextFair]_vars
    /\ \A t \in 1..NumFairTasks : WF_vars(ChallengeStep(t))

\* The challenge stage when the run was started with useAi and an API key:
\* every answer comes from solveWithGemini, no task waits for the relay.
InitAi == InitFor(1..NumAiTasks)

NextAi ==
    \/ InitializeGemini(TRUE)
    \/ \E t \in Tasks : Start(t)
    \/ \E t \in Tasks : EmailResolved(t, TRUE)
    \/ \E t \in Tasks : CreateContext(t, TRUE)
    \/ \E t \in Tasks : Steps(t, TRUE)
    \/ \E t \in Tasks, clicked \in BOOLEAN : TurnGranted(t, clicked)
    \/ \E t \in Tasks, solved \in BOOLEAN : SolveEnds(t, solved)
    \/ \E t \in Tasks, i \in AiInputs :
           AiAttempt(t, i.shot, i.position, i.after, i.check, i.final)
    \/ \E t \in Tasks : WsSkip(ThreadIdOf(t))

SpecAi == InitAi /\ [][NextAi]_vars

\* ------------------------------------------------------ POST /api/generate
Min(a, b) == IF a < b THEN a ELSE b

Max(a, b) == IF a > b THEN a ELSE b

\* const maxAllowedThreads = Math.min(maxThreads, MAX_THREADS)
maxAllowedThreads == Min(maxThreads, MAX_THREADS)

maxTotalAttempts == accountCount * AttemptsPerAccount

\* batchSuccessRate = successes / batchResults.length compared with 0.75 and
\* with 0.35; 0 / 0 is NaN, which compares false with both.
RateAbove(successes, length) == length > 0 /\ 4 * successes > 3 * length

RateBelow(successes, length) == length > 0 /\ 20 * successes < 7 * length

\* Mutant: the decrement has no floor.
calculateOptimalBatchSizeNoFloor(successes, length, threads, maxT) ==
    IF RateAbove(successes, length) THEN Min(threads + 1, maxT)
    ELSE IF RateBelow(successes, length) THEN threads - 1
    ELSE threads

\* calculateOptimalBatchSize(successRate, currentThreads, maxThreads), the
\* rate given as successes out of length
calculateOptimalBatchSize(successes, length, threads, maxT) ==
    IF RateAbove(successes, length) THEN Min(threads + 1, maxT)
    ELSE IF RateBelow(successes, length) THEN Max(threads - 1, MinThreads)
    ELSE threads

\* Mutant: a batch without a success ends the run.
LoopContinuesUntilFailedBatch ==
    /\ successfulCount < accountCount
    /\ totalAttempts < maxTotalAttempts
    /\ ~(totalAttempts > 0 /\ batchResults["success"] = 0)

\* while (successfulCount < accountCount && totalAttempts < maxTotalAttempts)
LoopContinues ==
    /\ successfulCount < accountCount
    /\ totalAttempts < maxTotalAttempts

\* Mutant: the batch is not limited by the successes still needed.
NextBatchSizeUnlimited == currentThreads

\* const batchSize = Math.min(currentThreads, remainingSuccessNeeded)
NextBatchSize == Min(currentThreads, accountCount - successfulCount)

Count(r) == r["success"] + r["skipped"] + r["failed"]

\* results.filter(r => r.skipped).length
skippedCount == results["skipped"]

\* Mutant: every result without success is counted as failed.
failedCountAllUnsuccessful == results["skipped"] + results["failed"]

\* results.filter(r => !r.success && !r.skipped).length
failedCount == results["failed"]

\* The handler up to `await getOrCreateBrowser(...)`.
InitRun ==
    /\ InitTasks({})
    /\ accountCount \in 1..MaxAccountCount
    /\ maxThreads \in 0..MaxThreadsInput
    /\ runPc = "browser"
    /\ currentThreads = Min(StartThreads, maxAllowedThreads)
    /\ prevThreads = 0
    /\ successfulCount = 0
    /\ totalAttempts = 0
    /\ inFlight = 0
    /\ batchSize = 0
    /\ batchResults = NoResults
    /\ results = NoResults
    /\ progressEvents = 1
    /\ lastProgress = [successful |-> 0, attempts |-> 0]
    /\ summary = NoSummary

taskVars == <<pc, ctx, outcome, poolVars, arbiterVars, relayVars, loopVars,
              historyVars, strayReleases, deliveryVars, auxVars>>

\* getOrCreateBrowser resolves, or puppeteer.launch rejects and the handler
\* leaves through its finally without a response.
RunBrowser(launched) ==
    /\ runPc = "browser"
    /\ runPc' = IF launched THEN "loop" ELSE "threw"
    /\ UNCHANGED <<taskVars, accountCount, maxThreads, currentThreads,
                   prevThreads, successfulCount, totalAttempts, inFlight,
                   batchSize, batchResults, results, progressEvents,
                   lastProgress, summary>>

\* The loop test and the dispatch of a batch up to `await Promise.all`, or
\* the exit of the loop.
LoopStep ==
    /\ runPc = "loop"
    /\ IF LoopContinues
       THEN /\ runPc' = "batch"
            /\ batchSize' = NextBatchSize
            /\ totalAttempts' = totalAttempts + Max(NextBatchSize, 0)
            /\ inFlight' = Max(NextBatchSize, 0)
            /\ batchResults' = NoResults
       ELSE /\ runPc' = "finally"
            /\ UNCHANGED <<batchSize, totalAttempts, inFlight, batchResults>>
    /\ UNCHANGED <<accountCount, maxThreads, currentThreads,
                   prevThreads, successfulCount, results, progressEvents,
                   lastProgress, summary>>

\* The same step with the tasks abstracted to their results.
RunLoop == LoopStep /\ UNCHANGED taskVars

\* Mutant: the result of a task without success is dropped.
SettleStepSuccessOnly(kind) ==
    /\ runPc = "batch"
    /\ inFlight > 0
    /\ inFlight' = inFlight - 1
    /\ IF kind = "success"
       THEN /\ batchResults' = [batchResults EXCEPT ![kind] = @ + 1]
            /\ successfulCount' = successfulCount + 1
            /\ progressEvents' = progressEvents + 1
            /\ lastProgress' = [successful |-> successfulCount + 1,
                                attempts |-> totalAttempts]
       ELSE UNCHANGED <<batchResults, successfulCount, progressEvents,
                        lastProgress>>
    /\ UNCHANGED <<accountCount, maxThreads, runPc, currentThreads,
                   prevThreads, totalAttempts, batchSize, results, summary>>

\* Mutant: the event carries the successes of the batch.
SettleStepBatchCount(kind) ==
    /\ runPc = "batch"
    /\ inFlight > 0
    /\ inFlight' = inFlight - 1
    /\ batchResults' = [batchResults EXCEPT ![kind] = @ + 1]
    /\ IF kind = "success"
       THEN /\ successfulCount' = successfulCount + 1
            /\ progressEvents' = progressEvents + 1
            /\ lastProgress' = [successful |-> batchResults[kind] + 1,
                                attempts |-> totalAttempts]
       ELSE UNCHANGED <<successfulCount, progressEvents, lastProgress>>
    /\ UNCHANGED <<accountCount, maxThreads, runPc, currentThreads,
                   prevThreads, totalAttempts, batchSize, results, summary>>

\* processAccount(...) settles and its .then callback runs.
SettleStep(kind) ==
    /\ runPc = "batch"
    /\ inFlight > 0
    /\ inFlight' = inFlight - 1
    /\ batchResults' = [batchResults EXCEPT ![kind] = @ + 1]
    /\ IF kind = "success"
       THEN /\ successfulCount' = successfulCount + 1
            /\ progressEvents' = progressEvents + 1
            /\ lastProgress' = [successful |-> successfulCount + 1,
                                attempts |-> totalAttempts]
       ELSE UNCHANGED <<successfulCount, progressEvents, lastProgress>>
    /\ UNCHANGED <<accountCount, maxThreads, runPc, currentThreads,
                   prevThreads, totalAttempts, batchSize, results, summary>>

\* The same step with the task abstracted to its result.
TaskSettles(kind) == SettleStep(kind) /\ UNCHANGED taskVars

\* Mutant: the handler goes on when the first promise has settled.
BatchEndFirstSettled ==
    /\ runPc = "batch"
    /\ inFlight < batchSize
    /\ runPc' = "loop"
    /\ results' = [k \in ResultKinds |-> results[k] + batchResults[k]]
    /\ prevThreads' = currentThreads
    /\ currentThreads' =
          calculateOptimalBatchSize(batchResults["success"],
                                    Count(batchResults), currentThreads,
                                    maxAllowedThreads)
    /\ UNCHANGED <<taskVars, accountCount, maxThreads, successfulCount,
                   totalAttempts, inFlight, batchSize, batchResults,
                   progressEvents, lastProgress, summary>>

\* Promise.all resolves: the results are kept and the batch size adapted.
BatchEnd ==
    /\ runPc = "batch"
    /\ inFlight = 0
    /\ runPc' = "loop"
    /\ results' = [k \in ResultKinds |-> results[k] + batchResults[k]]
    /\ prevThreads' = currentThreads
    /\ currentThreads' =
          calculateOptimalBatchSize(batchResults["success"],
                                    Count(batchResults), currentThreads,
                                    maxAllowedThreads)
    /\ UNCHANGED <<taskVars, accountCount, maxThreads, successfulCount,
                   totalAttempts, inFlight, batchSize, batchResults,
                   progressEvents, lastProgress, summary>>

\* The finally (contextPool.cleanup(), browser.close()) and res.json.
RunRespond ==
    /\ runPc = "finally"
    /\ runPc' = "done"
    /\ summary' = [targetSuccessful |-> accountCount,
                   actualSuccessful |-> successfulCount,
                   totalAttempts |-> totalAttempts,
                   skipped |-> skippedCount,
                   failed |-> failedCount]
    /\ UNCHANGED <<taskVars, accountCount, maxThreads, currentThreads,
                   prevThreads, successfulCount, totalAttempts, inFlight,
                   batchSize, batchResults, results, progressEvents,
                   lastProgress>>

NextRun ==
    \/ \E launched \in BOOLEAN : RunBrowser(launched)
    \/ RunLoop
    \/ \E kind \in ResultKinds : TaskSettles(kind)
    \/ BatchEnd
    \/ RunRespond

SpecRun == InitRun /\ [][NextRun]_vars

\* The run when the event loop keeps running the handler and every
\* processAccount promise settles.
SpecRunFair == InitRun /\ [][NextRun]_vars /\ WF_vars(NextRun)

\* calculateOptimalBatchSize on its own: a batch of any length up to
\* MaxBatchLength has settled with any number of successes, under any
\* currentThreads and maxThreads.
InitBatch ==
    /\ InitTasks({})
    /\ accountCount = MaxBatchLength
    /\ maxThreads \in 1..MaxThreadsInput
    /\ runPc = "batch"
    /\ currentThreads \in 1..MAX_THREADS
    /\ prevThreads = 0
    /\ batchSize \in 0..MaxBatchLength
    /\ \E k \in 0..MaxBatchLength :
          /\ k <= batchSize
          /\ batchResults = [NoResults EXCEPT !["success"] = k,
                                              !["failed"] = batchSize - k]
          /\ successfulCount = k
    /\ totalAttempts = batchSize
    /\ inFlight = 0
    /\ results = NoResults
    /\ progressEvents = 1 + successfulCount
    /\ lastProgress = [successful |-> successfulCount,
                       attempts |-> totalAttempts]
    /\ summary = NoSummary

SpecBatchSize == InitBatch /\ [][BatchEnd]_vars

\* ------------------------------------------- the run and its tasks
\* The handler followed together with the processAccount calls it makes: the
\* tasks are the attempts of the run, numbered by threadId.  The relay
\* client answers the challenge it is shown, and by skip_captcha only.
InitRunTasks ==
    /\ InitTasks(1..NumRunTasks)
    /\ accountCount \in RunAccountCounts
    /\ maxThreads = MAX_THREADS
    /\ runPc = "browser"
    /\ currentThreads = Min(StartThreads, maxAllowedThreads)
    /\ prevThreads = 0
    /\ successfulCount = 0
    /\ totalAttempts = 0
    /\ inFlight = 0
    /\ batchSize = 0
    /\ batchResults = NoResults
    /\ results = NoResults
    /\ progressEvents = 1
    /\ lastProgress = [successful |-> 0, attempts |-> 0]
    /\ summary = NoSummary

taskRest == <<ctx, outcome, poolVars, arbiterVars, relayVars, loopVars,
              historyVars, strayReleases, deliveryVars, auxVars>>

\* The tasks whose promises the handler awaits in Promise.all.
BatchTasks == {t \in Tasks : totalAttempts - batchSize < t /\ t <= totalAttempts}

\* The loop test and the for loop that calls processAccount batchSize times;
\* each call runs up to `await getEmailFromQueue`.
RunDispatch ==
    /\ LoopStep
    /\ totalAttempts' <= NumRunTasks
    /\ pc' = [t \in Tasks |-> IF totalAttempts < t /\ t <= totalAttempts'
                              THEN "email" ELSE pc[t]]
    /\ UNCHANGED taskRest

\* The promise of processAccount resolves with the value its return or its
\* catch produced, after the finally has released the context, and the
\* .then callback runs.
TaskSettled(t) ==
    /\ pc[t] = "done"
    /\ SettleStep(outcome[t])
    /\ pc' = [pc EXCEPT ![t] = "settled"]
    /\ UNCHANGED taskRest

\* skip_captcha for the challenge the relay client is shown.
SkipShown(t) ==
    /\ pc[t] \in {"solve", "solutionWait"}
    /\ WsSkip(ThreadIdOf(t))

\* The handler's finally: contextPool.cleanup().
RunCleanupStart ==
    /\ runPc = "finally"
    /\ pool # <<>> \/ inUse # {}
    /\ CleanupStart

RunCleanupFinish == runPc = "finally" /\ CleanupFinish

\* browser.close() and res.json, after cleanup() has emptied the pool.
RunRespondTasks ==
    /\ pool = <<>> /\ inUse = {} /\ cleanupPc = "idle"
    /\ RunRespond

NextRunTasks ==
    \/ \E launched \in BOOLEAN : RunBrowser(launched)
    \/ RunDispatch
    \/ \E t \in Tasks, emailOk \in BOOLEAN : EmailResolved(t, emailOk)
    \/ \E t \in Tasks, created \in BOOLEAN : CreateContext(t, created)
    \/ \E t \in Tasks, stepsOk \in BOOLEAN : Steps(t, stepsOk)
    \/ \E t \in Tasks, clicked \in BOOLEAN : TurnGranted(t, clicked)
    \/ \E t \in Tasks : SolveLoopHead(t)
    \/ \E t \in Tasks, solved \in BOOLEAN : SolveEnds(t, solved)
    \/ \E t \in Tasks : SolutionResume(t, FALSE)
    \/ \E t \in Tasks : SkipShown(t)
    \/ \E t \in Tasks, result \in {"success", "failed"} : Finish(t, result)
    \/ \E t \in Tasks, pagesOk \in BOOLEAN : ReleaseFinish(t, pagesOk, TRUE)
    \/ \E t \in Tasks : TaskSettled(t)
    \/ BatchEnd
    \/ RunCleanupStart
    \/ RunCleanupFinish
    \/ RunRespondTasks

SpecRunTasks == InitRunTasks /\ [][NextRunTasks]_vars

\* solveCaptchaManually in both modes, with every return told apart.
InitSolve == InitFor(1..NumSolveTasks)

NextSolve ==
    \/ \E key \in BOOLEAN : InitializeGemini(key)
    \/ \E t \in Tasks : Start(t)
    \/ \E t \in Tasks : EmailResolved(t, TRUE)
    \/ \E t \in Tasks : CreateContext(t, TRUE)
    \/ \E t \in Tasks : Steps(t, TRUE)
    \/ \E t \in Tasks, clicked \in BOOLEAN : TurnGranted(t, clicked)
    \/ \E t \in Tasks, start \in RoundStarts : RoundStart(t, start)
    \/ \E t \in Tasks : ManualHead(t)
    \/ \E t \in Tasks : SolutionTimeout(t)
    \/ \E t \in Tasks : WsClick(ThreadIdOf(t))
    \/ \E t \in Tasks : SkipShown(t)
    \/ \E t \in Tasks, i \in PassInputs :
          ManualResume(t, i.after, i.check, i.final)
    \/ \E t \in Tasks, position \in BOOLEAN, i \in PassInputs :
          AiStep(t, position, i.after, i.check, i.final)

SpecSolve == InitSolve /\ [][NextSolve]_vars

\* ------------------------------------------- skips and the task's lifetime
\* The tasks between their dispatch and the settling of their promise.
Running == {t \in Tasks : pc[t] \notin {"idle", "done"}}

\* skip_captcha, with the running tasks it is addressed to kept as history.
WsSkipLogged(id) ==
    /\ OnSkipCaptcha(id)
    /\ skipInLifetime' = skipInLifetime \cup
          {t \in Running : ThreadIdOf(t) = id}
    /\ UNCHANGED <<skipDelivered, absentDeliveries>>

\* The challenge stage of tasks of overlapping or successive runs, which
\* carry the same threadIds, under skip_captcha messages sent at any time.
NextStale ==
    \/ \E t \in Tasks : Start(t)
    \/ \E t \in Tasks : EmailResolved(t, TRUE)
    \/ \E t \in Tasks : CreateContext(t, TRUE)
    \/ \E t \in Tasks : Steps(t, TRUE)
    \/ \E t \in Tasks : TurnGranted(t, TRUE)
    \/ \E t \in Tasks : SolveLoopHead(t)
    \/ \E t \in Tasks, solved \in BOOLEAN : SolveEnds(t, solved)
    \/ \E t \in Tasks : SolutionTimeout(t)
    \/ \E t \in Tasks : SolutionResume(t, FALSE)
    \/ \E t \in Tasks : ReleaseFinish(t, TRUE, TRUE)
    \/ \E id \in ThreadIds : WsSkipLogged(id)
    \/ \E id \in ThreadIds : WsClick(id)

SpecStale == Init /\ [][NextStale]_vars

\* -------------------------------------------------------------- checkInbox
\* The registration form up to `inboxPromise = checkInbox(...)`: the first
\* iteration of the poll begins.  A failing step is Steps(t, FALSE).
FormFilled(t) ==
    /\ pc[t] = "steps"
    /\ pc' = [pc EXCEPT ![t] = "pollStarted"]
    /\ inbox' = [inbox EXCEPT ![t].state = "polling", ![t].probes = 1,
                              ![t].starts = @ + 1]
    /\ UNCHANGED <<ctx, outcome, poolVars, arbiterVars, relayVars, loopVars,
                   historyVars, strayReleases, schedVars, deliveryVars,
                   aiLog, emailQueue, emailOps, emailTakes, solveVars,
                   inFinally, client>>

\* `await wait(250)`, then waitForCaptchaTurn(threadId)
EnqueueAfterPoll(t) ==
    /\ pc[t] = "pollStarted"
    /\ EnqueueTurn(t)
    /\ pc' = [pc EXCEPT ![t] = "turnWait"]
    /\ UNCHANGED <<ctx, outcome, poolVars, relayVars, loopVars,
                   strayReleases, schedVars, deliveryVars, auxVars>>

\* Mutant: for (let i = 0; i <= maxAttempts; i++)
ProbesRemainInclusive(i) == i <= maxAttempts

\* for (let i = 0; i < maxAttempts; i++), i iterations having begun
ProbesRemain(i) == i < maxAttempts

\* An iteration of checkInbox ends: the code is found and returned, or the
\* iteration (no code, or a request failed) is followed by a wait and the
\* next one, or the loop is over and null is returned.
InboxProbed(t, found) ==
    /\ inbox[t].state = "polling"
    /\ inbox' = [inbox EXCEPT ![t] =
          IF found THEN [@ EXCEPT !.state = "code"]
          ELSE IF ProbesRemain(@.probes) THEN [@ EXCEPT !.probes = @ + 1]
          ELSE [@ EXCEPT !.state = "null"]]
    /\ UNCHANGED <<pc, ctx, outcome, poolVars, arbiterVars, relayVars,
                   loopVars, historyVars, strayReleases, schedVars,
                   deliveryVars, aiLog, emailQueue, emailOps, emailTakes,
                   solveVars,
                   inFinally, client>>

\* processAccount resumes from `await inboxPromise`: without a code it
\* throws; with one it fills the rest of the form (formOk) and returns the
\* account.  The finally releases the context.
InboxResume(t, formOk) ==
    /\ pc[t] = "awaitCode"
    /\ inbox[t].state \in {"code", "null"}
    /\ inbox' = [inbox EXCEPT ![t].resumed = TRUE]
    /\ pc' = [pc EXCEPT ![t] = AfterReleaseStart]
    /\ outcome' = [outcome EXCEPT ![t] =
          IF inbox[t].state = "code" /\ formOk THEN "success" ELSE "failed"]
    /\ ReleaseStart(t)
    /\ UNCHANGED <<ctx, pool, sanitizeFailed, cleanupPc, arbiterVars,
                   relayVars, loopVars, historyVars, strayReleases,
                   schedVars, deliveryVars, aiLog, emailQueue, emailOps,
                   emailTakes, solveVars,
                   inFinally, client>>

InitInbox == InitFor(1..NumInboxTasks)

NextInbox ==
    \/ \E t \in Tasks : Start(t)
    \/ \E t \in Tasks : EmailResolved(t, TRUE)
    \/ \E t \in Tasks : CreateContext(t, TRUE)
    \/ \E t \in Tasks : Steps(t, FALSE)
    \/ \E t \in Tasks : FormFilled(t)
    \/ \E t \in Tasks : EnqueueAfterPoll(t)
    \/ \E t \in Tasks : TurnGranted(t, TRUE)
    \/ \E t \in Tasks, solved \in BOOLEAN : SolveEnds(t, solved)
    \/ \E t \in Tasks, found \in BOOLEAN : InboxProbed(t, found)
    \/ \E t \in Tasks, formOk \in BOOLEAN : InboxResume(t, formOk)

SpecInbox == InitInbox /\ [][NextInbox]_vars

\* ------------------------------------------------------------ email queue
\* generateEmailInternal(threadId) up to `await generateEmailMailTM`
NewOp == [primary |-> "pending", secondary |-> "notCalled",
          result |-> "pending"]

\* Mutant: the secondary provider is not tried.
AfterPrimaryNoFallback(op, ok) ==
    IF ok THEN [op EXCEPT !.primary = "ok", !.result = "email"]
    ELSE [op EXCEPT !.primary = "failed", !.result = "null"]

\* generateEmailInternal after `await generateEmailMailTM`: the email is
\* returned, or generateEmailTempMailLol is called.
AfterPrimary(op, ok) ==
    IF ok THEN [op EXCEPT !.primary = "ok", !.result = "email"]
    ELSE [op EXCEPT !.primary = "failed", !.secondary = "pending"]

\* generateEmailInternal after `await generateEmailTempMailLol`
AfterSecondary(op, ok) ==
    IF ok THEN [op EXCEPT !.secondary = "ok", !.result = "email"]
    ELSE [op EXCEPT !.secondary = "failed", !.result = "null"]

\* maintainEmailQueue(): calls are started and their promises pushed while
\* the queue is shorter than EMAIL_QUEUE_SIZE.  The queue holds the
\* positions of the calls in emailOps.
maintainEmailQueue(queue, ops) ==
    LET k == Max(EMAIL_QUEUE_SIZE - Len(queue), 0)
    IN  [queue |-> queue \o [i \in 1..k |-> Len(ops) + i],
         ops |-> ops \o [i \in 1..k |-> NewOp]]

\* Mutant: the newest promise is taken (pop() in place of shift()).
getEmailFromQueuePop(queue, ops) ==
    LET m == maintainEmailQueue(queue, ops)
    IN  IF Len(m.queue) > 0
        THEN [queue |-> SubSeq(m.queue, 1, Len(m.queue) - 1), ops |-> m.ops,
              op |-> m.queue[Len(m.queue)]]
        ELSE [queue |-> m.queue, ops |-> Append(m.ops, NewOp),
              op |-> Len(m.ops) + 1]

\* getEmailFromQueue(threadId) up to its await: maintainEmailQueue(), then
\* emailQueue.shift() || generateEmailInternal(threadId).
getEmailFromQueue(queue, ops) ==
    LET m == maintainEmailQueue(queue, ops)
    IN  IF Len(m.queue) > 0
        THEN [queue |-> Tail(m.queue), ops |-> m.ops, op |-> Head(m.queue)]
        ELSE [queue |-> m.queue, ops |-> Append(m.ops, NewOp),
              op |-> Len(m.ops) + 1]

\* POST /api/generate: maintainEmailQueue().catch(() => {})
Prefill ==
    /\ Len(emailQueue) < EMAIL_QUEUE_SIZE
    /\ LET m == maintainEmailQueue(emailQueue, emailOps)
       IN  emailQueue' = m.queue /\ emailOps' = m.ops
    /\ UNCHANGED <<pc, ctx, outcome, poolVars, arbiterVars, relayVars,
                   loopVars, historyVars, strayReleases, schedVars,
                   deliveryVars, aiLog, emailTakes, solveVars, inbox,
                   inFinally, client>>

\* processAccount up to `await getEmailFromQueue(threadId)`
StartTake(t) ==
    /\ Dispatched(t)
    /\ LET g == getEmailFromQueue(emailQueue, emailOps)
       IN  /\ emailQueue' = g.queue
           /\ emailOps' = g.ops
           /\ emailTakes' = Append(emailTakes, [task |-> t, op |-> g.op])
    /\ UNCHANGED <<ctx, outcome, poolVars, arbiterVars, relayVars,
                   loopVars, historyVars, strayReleases, schedVars,
                   deliveryVars, aiLog, solveVars, inbox,
                   inFinally, client>>

\* The primary provider answers call i, or fails.
PrimarySettles(i, ok) ==
    /\ i \in 1..Min(Len(emailOps), MaxAnsweredOps)
    /\ emailOps[i].primary = "pending"
    /\ emailOps' = [emailOps EXCEPT ![i] = AfterPrimary(@, ok)]
    /\ UNCHANGED <<pc, ctx, outcome, poolVars, arbiterVars, relayVars,
                   loopVars, historyVars, strayReleases, schedVars,
                   deliveryVars, aiLog, emailQueue, emailTakes,
                   solveVars, inbox,
                   inFinally, client>>

\* The secondary provider answers call i, or fails.
SecondarySettles(i, ok) ==
    /\ i \in 1..Min(Len(emailOps), MaxAnsweredOps)
    /\ emailOps[i].secondary = "pending"
    /\ emailOps' = [emailOps EXCEPT ![i] = AfterSecondary(@, ok)]
    /\ UNCHANGED <<pc, ctx, outcome, poolVars, arbiterVars, relayVars,
                   loopVars, historyVars, strayReleases, schedVars,
                   deliveryVars, aiLog, emailQueue, emailTakes,
                   solveVars, inbox,
                   inFinally, client>>

\* The call whose promise task t awaits.
TakenOp(t) == (CHOOSE k \in Range(emailTakes) : k.task = t).op

\* The promise task t awaits has settled and processAccount resumes.
EmailArrives(t) ==
    /\ pc[t] = "email"
    /\ emailOps[TakenOp(t)].result # "pending"
    /\ EmailResolved(t, emailOps[TakenOp(t)].result = "email")

NextEmail ==
    \/ Prefill
    \/ \E t \in Tasks : StartTake(t)
    \/ \E i \in 1..MaxAnsweredOps, ok \in BOOLEAN : PrimarySettles(i, ok)
    \/ \E i \in 1..MaxAnsweredOps, ok \in BOOLEAN : SecondarySettles(i, ok)
    \/ \E t \in Tasks : EmailArrives(t)
    \/ \E t \in Tasks : CreateContext(t, TRUE)
    \/ \E t \in Tasks : Steps(t, TRUE)

SpecEmail == Init /\ [][NextEmail]_vars

\* ------------------------------------- messages without a pending resolver
\* skip_captcha for a threadId that captchaResolvers does not hold: the
\* handler sets the skip flag before it looks for the resolver.
WsSkipAbsent(id) ==
    /\ ~HasResolver(id)
    /\ absentDeliveries < MaxAbsentDeliveries
    /\ OnSkipCaptcha(id)
    /\ absentDeliveries' = absentDeliveries + 1
    /\ UNCHANGED <<skipDelivered, skipInLifetime>>

\* click for a threadId that captchaResolvers does not hold: the handler
\* finds no resolver and returns.
WsClickAbsent(id) ==
    /\ ~HasResolver(id)
    /\ absentDeliveries < MaxAbsentDeliveries
    /\ absentDeliveries' = absentDeliveries + 1
    /\ UNCHANGED <<pc, ctx, outcome, poolVars, arbiterVars, relayVars,
                   loopVars, historyVars, strayReleases, schedVars, auxVars,
                   skipDelivered, skipInLifetime>>

\* skip_captcha for a threadId whose resolver is pending.
WsSkipPending(id) == HasResolver(id) /\ WsSkip(id)

\* The challenge stage with the messages for absent resolvers counted.
NextAbsent ==
    \/ \E t \in Tasks : Start(t)
    \/ \E t \in Tasks : EmailResolved(t, TRUE)
    \/ \E t \in Tasks : CreateContext(t, TRUE)
    \/ \E t \in Tasks : Steps(t, TRUE)
    \/ \E t \in Tasks, clicked \in BOOLEAN : TurnGranted(t, clicked)
    \/ \E t \in Tasks : SolveLoopHead(t)
    \/ \E t \in Tasks, solved \in BOOLEAN : SolveEnds(t, solved)
    \/ \E t \in Tasks : SolutionTimeout(t)
    \/ \E t \in Tasks, fired \in BOOLEAN : SolutionResume(t, fired)
    \/ \E id \in ThreadIds : WsSkipPending(id)
    \/ \E id \in ThreadIds \cup {Null} : WsClick(id)
    \/ \E id \in ThreadIds : WsSkipAbsent(id)
    \/ \E id \in ThreadIds : WsClickAbsent(id)

SpecAbsent == Init /\ [][NextAbsent]_vars

\* ------------------------------------------------- the client's display
\* AccountGeneratorApp: the captcha shown (currentCaptcha), the captchas
\* waiting (captchaQueue) and the ref the socket handler reads.  A setState
\* call is rendered later; a useEffect callback runs after the commit, and
\* the effects of a commit run before the next render.

\* Everything but the client.
serverVars == <<pc, ctx, outcome, poolVars, arbiterVars, relayVars, loopVars,
                historyVars, strayReleases, schedVars, deliveryVars,
                aiLog, emailQueue, emailOps, emailTakes, solveVars, inbox,
                inFinally>>

\* prev.filter(c => c.threadId !== data.threadId)
RECURSIVE filtered(_, _)
filtered(prev, id) ==
    IF prev = <<>> THEN <<>>
    ELSE IF Head(prev).threadId # id
         THEN <<Head(prev)>> \o filtered(Tail(prev), id)
         ELSE filtered(Tail(prev), id)

\* One queued setState applied to the state [currentCaptcha, captchaQueue].
applyUpdate(st, u) ==
    CASE u.kind = "setCurrentCaptcha" ->
             [st EXCEPT !.currentCaptcha = u.item]
      [] u.kind = "setCaptchaQueue" ->
             [st EXCEPT !.captchaQueue = u.queue]
      [] u.kind = "appendCaptcha" ->
             [st EXCEPT !.captchaQueue =
                            Append(filtered(@, u.item.threadId), u.item)]

RECURSIVE applyUpdates(_, _)
applyUpdates(st, ups) ==
    IF ups = <<>> THEN st
    ELSE applyUpdates(applyUpdate(st, Head(ups)), Tail(ups))

\* ws.onmessage with data.type === 'captcha'
OnCaptchaMessage(id) ==
    /\ client.arrivals < MaxCaptchaMessages
    /\ LET captchaItem == [threadId |-> id,
                           timestamp |-> client.arrivals + 1]
           activeCaptcha == client.currentCaptchaRef
           update ==
               IF activeCaptcha # NoCaptcha /\ activeCaptcha.threadId = id
               THEN [kind |-> "setCurrentCaptcha", item |-> captchaItem,
                     queue |-> <<>>]
               ELSE [kind |-> "appendCaptcha", item |-> captchaItem,
                     queue |-> <<>>]
       IN client' = [client EXCEPT !.arrivals = @ + 1,
                                   !.updates = Append(@, update)]
    /\ UNCHANGED serverVars

\* `if (!currentCaptcha) return` of the two click handlers.  The update of
\* a click is rendered before the next click is handled.
canAnswer ==
    /\ client.currentCaptcha # NoCaptcha
    /\ \A i \in 1..Len(client.updates) :
          ~(/\ client.updates[i].kind = "setCurrentCaptcha"
            /\ client.updates[i].item = NoCaptcha)

\* wsRef.current.send({type, threadId: currentCaptcha.threadId}) and
\* setCurrentCaptcha(null)
answered(type) ==
    [client EXCEPT
        !.sent = [type |-> type, threadId |-> client.currentCaptcha.threadId],
        !.updates = Append(@, [kind |-> "setCurrentCaptcha",
                               item |-> NoCaptcha, queue |-> <<>>])]

handleCaptchaSelect ==
    /\ canAnswer
    /\ client' = answered("captcha_click")
    /\ UNCHANGED serverVars

handleSkipCaptcha ==
    /\ canAnswer
    /\ client' = answered("skip_captcha")
    /\ UNCHANGED serverVars

\* React renders the queued updates and commits; the effects whose
\* dependencies changed are pending.
Render ==
    /\ client.updates # <<>>
    /\ client.effects = {}
    /\ LET old == [currentCaptcha |-> client.currentCaptcha,
                   captchaQueue |-> client.captchaQueue]
           new == applyUpdates(old, client.updates)
           currentChanged == new.currentCaptcha # old.currentCaptcha
           queueChanged == new.captchaQueue # old.captchaQueue
       IN client' = [client EXCEPT
              !.currentCaptcha = new.currentCaptcha,
              !.captchaQueue = new.captchaQueue,
              !.updates = <<>>,
              !.effects =
                  (IF currentChanged THEN {"currentCaptchaRef"} ELSE {})
                     \cup (IF currentChanged \/ queueChanged
                           THEN {"captchaQueue"} ELSE {})]
    /\ UNCHANGED serverVars

\* The pending effects run, in the order of their declaration: the ref
\* takes currentCaptcha; with nothing shown, the head of the queue is set
\* as currentCaptcha and the rest as the queue.
RunEffects ==
    /\ client.effects # {}
    /\ client' = [client EXCEPT
           !.effects = {},
           !.currentCaptchaRef =
               IF "currentCaptchaRef" \in client.effects
               THEN client.currentCaptcha ELSE @,
           !.updates =
               IF /\ "captchaQueue" \in client.effects
                  /\ client.currentCaptcha = NoCaptcha
                  /\ Len(client.captchaQueue) > 0
               THEN @ \o <<[kind |-> "setCurrentCaptcha",
                            item |-> Head(client.captchaQueue),
                            queue |-> <<>>],
                           [kind |-> "setCaptchaQueue", item |-> NoCaptcha,
                            queue |-> Tail(client.captchaQueue)]>>
               ELSE @]
    /\ UNCHANGED serverVars

NextClient ==
    \/ \E id \in ThreadIds : OnCaptchaMessage(id)
    \/ handleCaptchaSelect
    \/ handleSkipCaptcha
    \/ Render
    \/ RunEffects

SpecClient == Init /\ [][NextClient]_vars

\* ------------------------------------------------------------ properties
\* The tasks granted the turn that have not yet released it.
TurnHolders == {t \in Tasks : t \in turnResolved /\ releaseCalls[t] = 0}

\* The tasks that hold a context between getContext and releaseContext.
CheckedOut ==
    {t \in Tasks :
        pc[t] \in {"steps", "turnWait", "solve", "solutionWait", "awaitCode"}}

\* C1: at every instant at most one task has been granted the turn and has
\* not yet released it, and that task is the one the arbiter names as active.
C1_MutualExclusion ==
    /\ Cardinality(TurnHolders) <= 1
    /\ \A t \in TurnHolders : activeCaptchaThreadId = ThreadIdOf(t)

\* A task is in the challenge stage while another waits in the queue.
C1_Witness ==
    \E t \in TurnHolders :
        /\ pc[t] = "solutionWait"
        /\ \E i \in 1..Len(captchaQueue) : captchaQueue[i].task # t

\* C2: turns are granted in arrival order: no grant passes over a task that
\* arrived earlier, the queue holds the ungranted arrivals in arrival order,
\* and a grant is issued only when the previous holder has released.
C2_FifoGrants ==
    /\ overtaken = {}
    /\ Len(captchaQueue) = Len(waiting)
    /\ \A i \in 1..Len(captchaQueue) : captchaQueue[i].task = waiting[i]
    /\ Cardinality(holders) <= 1

\* The latest grant went to the head of a queue of two or more tasks.
C2_Witness ==
    /\ lastGrant.to # Null
    /\ lastGrant.behind >= 1
    /\ lastGrant.from # Null

\* C3: a task granted the turn releases it exactly once, as holder, when it
\* leaves the challenge stage by any exit (solved, unsolved, skip, trigger
\* failure, exception), and not before.
C3_ReleaseOnExit ==
    \A t \in Tasks :
        /\ t \in turnResolved /\ pc[t] \in {"awaitCode", "sanitize", "done"}
              => releaseCalls[t] = 1 /\ releases[t] = 1
        /\ pc[t] \in {"turnWait", "solve", "solutionWait"}
              => releaseCalls[t] = 0 /\ releases[t] = 0
        /\ t \notin turnResolved => releaseCalls[t] = 0

\* Three tasks have left the challenge stage: one solved, one skipped and
\* one failed.
C3_Witness ==
    \E a, b, c \in Tasks :
        /\ {a, b, c} \subseteq turnResolved
        /\ pc[a] = "awaitCode" /\ releases[a] = 1
        /\ outcome[b] = "skipped" /\ releases[b] = 1
        /\ outcome[c] = "failed" /\ releases[c] = 1

C5_NonHolderReleaseNoOp ==
    [][strayReleases' # strayReleases
         => UNCHANGED <<activeCaptchaThreadId, captchaQueue, skipCaptchaFlags,
                        turnResolved, captchaResolvers, slot, holders,
                        waiting>>]_vars

\* A non-holder has called while a task holds the turn, another is queued
\* and a skip flag is set.
C5_Witness ==
    /\ strayReleases > 0
    /\ activeCaptchaThreadId # Null
    /\ captchaQueue # <<>>
    /\ skipCaptchaFlags # {}

\* C6: whenever no task holds the turn, the queue is empty.
C6_IdleMeansEmptyQueue ==
    activeCaptchaThreadId = Null => captchaQueue = <<>>

\* The arbiter is idle after a release has handed the turn over.
C6_Witness ==
    /\ activeCaptchaThreadId = Null
    /\ lastGrant.from # Null
    /\ \A t \in Tasks : t \in turnResolved => releases[t] = 1

\* C7: the free and the in-use contexts together never exceed maxSize.
\* getContext creates a context whenever the free array is empty.
C7_CapacityBound ==
    Len(pool) + Cardinality(inUse) <= maxSize

\* C8: for every sequence of getContext and releaseContext calls no context
\* is both free and in use, and no two tasks hold the same context.
\* releaseContext pushes a context that is already free or held by another.
C8_Disjoint ==
    /\ Range(pool) \cap inUse = {}
    /\ \A t, u \in CheckedOut : t # u => ctx[t] # ctx[u]

\* C9: the free array never holds more than maxSize contexts.
\* releaseContext awaits between its length test and its push.
C9_FreeSetBound ==
    Len(pool) <= maxSize

\* C10: no context whose sanitizing failed for a page is free or handed to
\* a task.
C10_SanitizedOnly ==
    /\ \A i \in 1..Len(pool) : pool[i] \notin sanitizeFailed
    /\ \A t \in CheckedOut : ctx[t] \notin sanitizeFailed

\* C11: a cleanup() call closes every context that is free or in use when
\* it is called, no context is ever reopened, both sets are empty when the
\* call completes, and a call on an empty pool changes nothing.
C11_CleanupTearsDownAll ==
    [][/\ closed \subseteq closed'
       /\ cleanupPc = "idle" /\ cleanupPc' = "closing"
             => /\ Range(pool) \cup inUse \subseteq closed'
                /\ (pool = <<>> /\ inUse = {} => closed' = closed)
                /\ UNCHANGED <<pool, inUse>>
       /\ cleanupPc = "closing" /\ cleanupPc' = "idle"
             => /\ pool' = <<>> /\ inUse' = {}
                /\ UNCHANGED <<closed, sanitizeFailed>>]_vars

\* A cleanup() has completed that closed a context a task still holds and
\* a context that was free.
C11_Witness ==
    /\ cleanupPc = "idle" /\ pool = <<>> /\ inUse = {}
    /\ \E t, u \in Tasks :
          /\ pc[t] = "steps" /\ ctx[t] \in closed
          /\ pc[u] = "done" /\ ctx[u] \in closed /\ ctx[u] # ctx[t]

\* The contexts that exist and on which close() has not been called.
LiveContexts == {ctx[t] : t \in {u \in Tasks : ctx[u] # Null}} \ closed

\* C12: with cleanup() interleaving the tasks, no closed context is in the
\* free array, and every context that is still open is free, in use or on
\* its way through releaseContext.
C12_CleanupSafe ==
    /\ \A i \in 1..Len(pool) : pool[i] \notin closed
    /\ LiveContexts \subseteq
          Range(pool) \cup inUse
             \cup {ctx[t] : t \in {u \in Tasks : pc[u] = "sanitize"}}

\* C13: the attempts dispatched by a run never exceed accountCount * 8.
\* The loop tests the ceiling before a batch, not for each dispatch.
C13_AttemptsBound ==
    totalAttempts <= maxTotalAttempts

\* C14: once the browser is there, every run reaches its summary.
\* With maxThreads = 0 every batch is empty and the loop never exits.
C14_RunTerminates ==
    (runPc = "loop") ~> (runPc = "done")

\* C15: the successes of a run never exceed accountCount, and the summary
\* reports them: accountCount of them unless the ceiling was reached first.
C15_SuccessesBound ==
    /\ successfulCount <= accountCount
    /\ successfulCount = results["success"] + (IF runPc = "batch"
                                              THEN batchResults["success"]
                                              ELSE 0)
    /\ runPc = "done" =>
          /\ summary.actualSuccessful = results["success"]
          /\ summary.actualSuccessful <= accountCount
          /\ \/ summary.actualSuccessful = accountCount
             \/ summary.totalAttempts >= maxTotalAttempts

\* A run of the largest accountCount has ended with all its successes after
\* some failures.
C15_Witness ==
    /\ runPc = "done"
    /\ accountCount = MaxAccountCount
    /\ summary.actualSuccessful = accountCount
    /\ summary.failed > 0

\* C16: the loop is left only with the successes reached or the attempts
\* used up.
C16_EndsOnlyOnTargetOrCeiling ==
    runPc \in {"finally", "done"} =>
        \/ successfulCount >= accountCount
        \/ totalAttempts >= maxTotalAttempts

\* A run without any success has gone on to its ceiling.
C16_Witness ==
    /\ runPc = "done"
    /\ summary.actualSuccessful = 0
    /\ summary.skipped > 0
    /\ summary.totalAttempts >= maxTotalAttempts

\* C17: after a batch of k successes out of n, currentThreads is
\* min(prev + 1, max) when k / n > 0.75, max(prev - 1, 2) when k / n < 0.35
\* and prev otherwise.
C17_BatchSizeRule ==
    [][runPc = "batch" /\ runPc' = "loop" =>
         LET k == batchResults["success"]
             n == Count(batchResults)
         IN  currentThreads' =
                IF 4 * k > 3 * n
                THEN Min(currentThreads + 1, Min(maxThreads, MAX_THREADS))
                ELSE IF 20 * k < 7 * n THEN Max(currentThreads - 1, 2)
                ELSE currentThreads]_vars

\* prev = 3 and max = 6 have given 4 at rate 0.8.
C17_Witness ==
    /\ runPc = "loop"
    /\ prevThreads = 3 /\ maxAllowedThreads = 6
    /\ batchResults["success"] = 4 /\ Count(batchResults) = 5
    /\ currentThreads = 4

\* C18: a progress message with the running totals follows every settled
\* task.  The .then callback sends one for a success only.
C18_ProgressAfterEverySettle ==
    runPc # "none" =>
        /\ progressEvents = 1 + (totalAttempts - inFlight)
        /\ lastProgress.successful = successfulCount

\* C19: the summary counts every dispatched task once: as successful, as
\* skipped or as failed.
C19_SummaryPartition ==
    runPc = "done" =>
        /\ summary.actualSuccessful + summary.skipped + summary.failed
              = summary.totalAttempts
        /\ summary.totalAttempts = totalAttempts
        /\ summary.actualSuccessful = results["success"]
        /\ summary.skipped = results["skipped"]
        /\ summary.failed = results["failed"]

\* A summary with successful, skipped and failed tasks.
C19_Witness ==
    /\ runPc = "done"
    /\ summary.actualSuccessful > 0
    /\ summary.skipped > 0
    /\ summary.failed > 0

\* C20: a task that was sent a skip_captcha while it held the turn leaves
\* the challenge stage skipped, with the turn released.  The flag is read
\* at the head of the click loop and by a pending wait only.
C20_SkipEndsSkipped ==
    \A t \in skipDelivered :
        releaseCalls[t] > 0 => outcome[t] = "skipped" /\ releases[t] = 1

C22_EveryTaskSettlesStructured ==
    [][/\ \A t \in Tasks :
             /\ pc'[t] \in {"done", "settled"} => outcome'[t] \in ResultKinds
             /\ pc[t] = "creating" /\ pc'[t] # "creating" /\ ctx'[t] = Null
                   => pc'[t] = "done" /\ outcome'[t] = "failed"
       /\ runPc' = "batch" =>
             Count(results') + Count(batchResults') + inFlight'
                = totalAttempts'
       /\ runPc' \in {"loop", "finally", "done"} =>
             Count(results') = totalAttempts'
       /\ runPc = "batch" /\ runPc' # "batch" =>
             /\ runPc' = "loop"
             /\ \A t \in BatchTasks : pc[t] = "settled"]_vars

\* Two batches have settled with a success, a skip and a failure before a
\* context was acquired.
C22_Witness ==
    /\ runPc = "loop"
    /\ results["success"] > 0 /\ results["skipped"] > 0
    /\ \E t \in Tasks :
          pc[t] = "settled" /\ outcome[t] = "failed" /\ ctx[t] = Null

\* C24: the contexts in use are those of the tasks between getContext and
\* releaseContext, one task each; a settled task holds none, so no context
\* is in use when a batch has settled.
C24_ReleasedOnceWhenSettled ==
    /\ inUse = {ctx[t] : t \in CheckedOut}
    /\ \A t, u \in CheckedOut : t # u => ctx[t] # ctx[u]
    /\ runPc \in {"loop", "finally", "done"} => inUse = {}

\* A batch has settled whose tasks acquired a context each and ended with
\* different results.
C24_Witness ==
    /\ runPc = "loop" /\ inUse = {}
    /\ \E t, u \in Tasks :
          /\ pc[t] = "settled" /\ pc[u] = "settled"
          /\ ctx[t] # Null /\ ctx[u] # Null
          /\ outcome[t] = "success" /\ outcome[u] \in {"skipped", "failed"}

\* C29: a batch is dispatched, and currentThreads recomputed, only when
\* every task dispatched before has settled and released its context.
C29_BatchBarrier ==
    [][totalAttempts' > totalAttempts \/ (runPc = "batch" /\ runPc' = "loop")
         => \A t \in 1..totalAttempts :
               pc[t] = "settled" /\ ctx[t] \notin inUse]_vars

\* The second batch is in flight after a batch of two.
C29_Witness ==
    /\ runPc = "batch"
    /\ totalAttempts = 3 /\ batchSize = 1
    /\ pc[3] \in {"steps", "turnWait"}

\* C23: when getOrCreateBrowser rejects, the handler ends with a response
\* sent, no task dispatched and the pool empty.  The handler has a finally
\* and no catch: the rejection leaves it before any res call.
C23_BrowserFailureAnswered ==
    runPc = "threw" =>
        /\ summary # NoSummary
        /\ totalAttempts = 0
        /\ pool = <<>> /\ inUse = {}

\* C25: the k-th getEmailFromQueue call receives the k-th call of
\* generateEmailInternal that was started, no call is given to two tasks,
\* and the queue holds the calls not yet taken, oldest first.
C25_EmailsFifoOnce ==
    /\ \A k \in 1..Len(emailTakes) : emailTakes[k].op = k
    /\ \A j, k \in 1..Len(emailTakes) :
          j # k => /\ emailTakes[j].op # emailTakes[k].op
                   /\ emailTakes[j].task # emailTakes[k].task
    /\ emailQueue = [i \in 1..Len(emailQueue) |-> Len(emailTakes) + i]
    /\ Len(emailTakes) + Len(emailQueue) = Len(emailOps)

\* Three tasks have taken while a refill was pending, and the third has
\* resumed with the third call's email.
C25_Witness ==
    /\ Len(emailTakes) = 3
    /\ Len(emailOps) > EMAIL_QUEUE_SIZE
    /\ emailOps[3].result = "email"
    /\ pc[emailTakes[3].task] \in {"creating", "steps"}

\* The generateEmailInternal calls that have not settled.
InFlightOps == {i \in 1..Len(emailOps) : emailOps[i].result = "pending"}

\* C26: the calls in flight, queued or taken, never exceed EMAIL_QUEUE_SIZE.
\* maintainEmailQueue tests the length of the queue, which a take shortens.
C26_InFlightBound ==
    Cardinality(InFlightOps) <= EMAIL_QUEUE_SIZE

\* C27: the secondary provider is called only after the primary failed, a
\* call yields no email only when both failed, and a task that receives no
\* email ends failed without a context and without a ticket for the turn.
C27_FallbackThenFail ==
    /\ \A i \in 1..Len(emailOps) :
          LET op == emailOps[i]
          IN  /\ op.secondary # "notCalled" => op.primary = "failed"
              /\ op.primary = "failed" => op.secondary # "notCalled"
              /\ op.result = "null" =>
                    op.primary = "failed" /\ op.secondary = "failed"
              /\ op.result = "email" =>
                    op.primary = "ok" \/ op.secondary = "ok"
    /\ \A k \in 1..Len(emailTakes) :
          LET t == emailTakes[k].task
          IN  emailOps[emailTakes[k].op].result = "null" /\ pc[t] # "email"
                 => /\ pc[t] = "done" /\ outcome[t] = "failed"
                    /\ ctx[t] = Null /\ ctx[t] \notin inUse
                    /\ t \notin Range(waiting) /\ t \notin turnResolved
                    /\ \A i \in 1..Len(captchaQueue) :
                          captchaQueue[i].task # t

\* One task has failed for want of an email after both providers failed,
\* another holds a context and the turn with an email of the secondary.
C27_Witness ==
    \E t, u \in Tasks :
        /\ pc[t] = "done" /\ outcome[t] = "failed"
        /\ emailOps[TakenOp(t)].result = "null"
        /\ pc[u] = "turnWait" /\ u \in turnResolved
        /\ emailOps[TakenOp(u)].secondary = "ok"

\* C28: a skip_captcha or click message for a threadId without a pending
\* resolver changes no arbiter, resolver or skip state and no task.
C28_AbsentDeliveryNoOp ==
    [][absentDeliveries' # absentDeliveries =>
          UNCHANGED <<arbiterVars, relayVars, pc, outcome>>]_vars

\* C30: a task clicks the Get Code button, and submits a relayed click to
\* the challenge, only while it is the one task that was granted the turn
\* and has not released it, and the arbiter names it as active.
C30_SubmitOnlyAsHolder ==
    [][\A t \in Tasks :
          \/ pc[t] = "turnWait" /\ pc'[t] = "solve"
          \/ slot[t] = "click" /\ slot'[t] = "none"
          => /\ TurnHolders = {t}
             /\ activeCaptchaThreadId = ThreadIdOf(t)
             /\ \A u \in Tasks \ {t} :
                   pc[u] \notin {"solve", "solutionWait"}]_vars

\* A task has submitted a click and is back in the click loop with the
\* turn, while another task waits in the queue for its turn.
C30_Witness ==
    \E t \in TurnHolders, u \in Tasks :
        /\ pc[t] = "solve" /\ clickAttempts[t] >= 1
        /\ pc[u] = "turnWait" /\ u \notin turnResolved
        /\ \E i \in 1..Len(captchaQueue) : captchaQueue[i].task = u

\* The tasks inside solveCaptchaManually.
InChallenge == {t \in Tasks : pc[t] \in {"solve", "solutionWait"}}

\* The answers and solver misses of task t are within rounds x attempts,
\* the loop counters are in range while t is in the stage, and t has left
\* the stage when the bound is reached.
AttemptsInBound(t) ==
    LET max == IF useAiSolver THEN 3 ELSE 2
        L == solveLog[t]
    IN  /\ L.clicks <= maxCaptchaRounds * max
        /\ L.clicks + L.misses <= maxCaptchaRounds * max
        /\ L.clicks + L.misses = maxCaptchaRounds * max
              => t \notin InChallenge
        /\ t \in InChallenge =>
              /\ round[t] \in 1..maxCaptchaRounds
              /\ clickAttempts[t] < max
              /\ L.clicks + L.misses
                    <= (round[t] - 1) * max + clickAttempts[t]

\* C31: a task submits at most rounds x attempts answers (2 x 2 with the
\* relay, 2 x 3 with the solver), and the stage ends after a bounded number
\* of passes: every pass of the click loop ends the stage, submits an
\* answer or consumes an attempt, or (a wait that timed out, a missing
\* screenshot) ends the round.
C31_AttemptsBounded ==
    [][\A t \in Tasks :
          /\ AttemptsInBound(t)'
          /\ \/ t \in InChallenge /\ slot[t] # "none" /\ slot'[t] = "none"
             \/ /\ useAiSolver /\ pc[t] = "solve" /\ pc'[t] = "solve"
                /\ solveLog[t].shot # "none"
                /\ <<round[t], clickAttempts[t]>>'
                      # <<round[t], clickAttempts[t]>>
             => \/ t \notin InChallenge'
                \/ /\ round'[t] = round[t]
                   /\ clickAttempts'[t] = clickAttempts[t] + 1
                   /\ (solveLog[t].clicks + solveLog[t].misses)' =
                         solveLog[t].clicks + solveLog[t].misses + 1
                \/ /\ round'[t] = round[t] + 1
                   /\ clickAttempts'[t] = 0]_vars

\* Without the solver a task has submitted four relayed clicks in two
\* rounds and left the stage unsolved.
C31_Witness ==
    \E t \in Tasks :
        /\ ~useAiSolver
        /\ solveLog[t].clicks = 4
        /\ solveLog[t].cause = "failed" /\ outcome[t] = "failed"

\* C32: with useAiSolver set, a pass in which solveWithGemini returns null
\* submits nothing and consumes one attempt (or ends the stage when page.$
\* throws), the next pass of the round has a screenshot taken after the
\* miss, or the older one when none could be taken, and no task ever
\* registers a resolver or waits for the relay.
C32_SolverMissConsumesAttempt ==
    [][useAiSolver =>
          /\ captchaResolvers' = <<>>
          /\ \A t \in Tasks :
                /\ pc'[t] # "solutionWait" /\ slot'[t] = "none"
                /\ solveLog'[t].misses # solveLog[t].misses =>
                      /\ solveLog'[t].misses = solveLog[t].misses + 1
                      /\ solveLog'[t].clicks = solveLog[t].clicks
                      /\ \/ t \notin InChallenge'
                         \/ /\ round'[t] = round[t]
                            /\ clickAttempts'[t] = clickAttempts[t] + 1
                            /\ solveLog'[t].shot \in {"fresh", "kept"}
                         \/ /\ clickAttempts[t] + 1 = maxClickAttemptsAi
                            /\ round'[t] = round[t] + 1
                            /\ clickAttempts'[t] = 0]_vars

\* The solver has missed twice in a round without a click, and the third
\* attempt of the round is about to use a screenshot taken after the miss.
C32_Witness ==
    \E t \in Tasks :
        /\ useAiSolver /\ pc[t] = "solve"
        /\ solveLog[t].misses = 2 /\ solveLog[t].clicks = 0
        /\ clickAttempts[t] = 2 /\ solveLog[t].shot = "fresh"

\* C36: solveCaptchaManually returns true only by a success heuristic; a
\* frame that cannot be accessed or a screenshot that cannot be taken does
\* not make it return true.
C36_SuccessOnlyByHeuristic ==
    \A t \in Tasks :
        pc[t] = "awaitCode" => solveLog[t].cause = "heuristic"

\* The tasks that have called waitForCaptchaTurn.
Enqueued ==
    {t \in Tasks : \/ \E i \in 1..Len(captchaQueue) : captchaQueue[i].task = t
                   \/ t \in turnResolved}

\* C33: checkInbox is called at most once a task and before the task
\* enqueues for the turn, it makes at most 80 probes and has returned when
\* the 80th found nothing, and a task that resumes from inboxPromise
\* without a code ends failed although its challenge was solved.
C33_PollOnceBounded ==
    \A t \in Tasks :
        /\ inbox[t].starts <= 1
        /\ t \in Enqueued => inbox[t].starts = 1
        /\ inbox[t].probes <= maxAttempts
        /\ inbox[t].state = "null" => inbox[t].probes = maxAttempts
        /\ inbox[t].resumed /\ inbox[t].state = "null" =>
              outcome[t] = "failed" /\ releaseCalls[t] = 1
        /\ outcome[t] = "success" =>
              inbox[t].resumed /\ inbox[t].state = "code"
        /\ pc[t] = "awaitCode" => inbox[t].state # "none"

\* A task solved its challenge, its poll made 80 probes without a code, and
\* the task ended failed.
C33_Witness ==
    \E t \in Tasks :
        /\ inbox[t].resumed /\ inbox[t].state = "null"
        /\ inbox[t].probes = 80 /\ inbox[t].starts = 1
        /\ outcome[t] = "failed"

\* C34: a task ends skipped only if a skip_captcha message with its
\* threadId was received while the task was running.
C34_SkippedOnlyByOwnSkip ==
    \A t \in Tasks : outcome[t] = "skipped" => t \in skipInLifetime

\* C35: the tasks of a run that are in flight never exceed
\* min(maxThreads, MAX_THREADS), and so never the capacity of the pool.
C35_ConcurrencyWithinMax ==
    runPc \notin {"none", "browser"} =>
        /\ inFlight <= maxAllowedThreads
        /\ batchSize <= maxAllowedThreads
        /\ inFlight <= maxSize

\* C37: captchaResolvers holds at most one resolver, which is the one of the
\* task that holds the turn and waits for an answer; a wait is pending
\* exactly while its resolver is in the map, and once it is settled (by a
\* click, a skip or the timer) the resolver is gone, so that nothing
\* settles it again.
C37_OneResolverOfHolder ==
    /\ Len(captchaResolvers) <= 1
    /\ \A i \in 1..Len(captchaResolvers) :
          LET e == captchaResolvers[i]
          IN  /\ TurnHolders = {e.task}
              /\ e.threadId = ThreadIdOf(e.task)
              /\ activeCaptchaThreadId = e.threadId
              /\ pc[e.task] = "solutionWait" /\ slot[e.task] = "pending"
    /\ \A t \in Tasks :
          /\ slot[t] = "pending" =>
                \E i \in 1..Len(captchaResolvers) : captchaResolvers[i].task = t
          /\ slot[t] \in {"click", "skipped", "timeout"} =>
                /\ pc[t] = "solutionWait"
                /\ ~HasResolver(ThreadIdOf(t))

\* A wait was settled by a click and its resolver removed; a skip_captcha
\* for the same threadId came after it and found no resolver.
C37_Witness ==
    \E t \in TurnHolders :
        /\ slot[t] = "click" /\ captchaResolvers = <<>>
        /\ ThreadIdOf(t) \in skipCaptchaFlags
        /\ \E i \in 1..Len(captchaQueue) : captchaQueue[i].task # t

\* C38: in every progress event of a run 0 <= successful <= attempts and
\* successful <= accountCount, and successful does not decrease from one
\* event to the next.
C38_ProgressTotalsConsistent ==
    [][/\ 0 <= lastProgress'.successful
       /\ lastProgress'.successful <= lastProgress'.attempts
       /\ lastProgress'.successful <= accountCount'
       /\ progressEvents' # progressEvents =>
             /\ progressEvents' = progressEvents + 1
             /\ lastProgress'.successful >= lastProgress.successful
             /\ lastProgress'.attempts >= lastProgress.attempts]_vars

\* The third event of a run: the second success, in the second batch,
\* after three attempts.
C38_Witness ==
    /\ runPc # "none"
    /\ progressEvents = 3
    /\ lastProgress = [successful |-> 2, attempts |-> 3]
    /\ results["success"] = 1 /\ batchResults["success"] = 1

\* C39: with two overlapping runs, the cleanup at the end of one run never
\* closes a context that a running task of the other run holds, and the
\* pool's capacity bound and the arbiter's single holder hold across both.
\* cleanup() closes every context of inUse, whichever run's task holds it.
C39_OverlapSafe ==
    /\ \A t \in CheckedOut : ctx[t] \notin closed
    /\ Len(pool) + Cardinality(inUse) <= maxSize
    /\ Cardinality(holders) <= 1

\* C40: among the captcha shown and the captchas waiting each threadId
\* occurs at most once, and the waiting captchas are in the order of their
\* arrival.  The socket handler compares with currentCaptchaRef, which an
\* effect updates after the commit that shows a captcha.
C40_DisplayUniqueInOrder ==
    LET q == client.captchaQueue
        c == client.currentCaptcha
    IN /\ \A i, j \in 1..Len(q) : i < j => q[i].threadId # q[j].threadId
       /\ \A i \in 1..Len(q) : q[i].threadId # c.threadId
       /\ \A i, j \in 1..Len(q) : i < j => q[i].timestamp < q[j].timestamp

====
